---- MODULE Spec2Model ----
(***************************************************************************)
(* Model of the proctoring backend (src/backend): the calibration route    *)
(* save_baseline, the exam poll analyze_behavior, the feature extractors   *)
(* and the store helpers of utils/db_helpers.py.                           *)
(*                                                                         *)
(* Numbers.  Scores, thresholds and relative deviations are floats in the  *)
(* code; here they are integers in thousandths (0.55 is 550).  The score   *)
(* values the classifiers may return are multiples of 10, so that the      *)
(* 0.5/0.5 averages and the 1.2 boost are exact.  Timestamps are integers  *)
(* in hundredths of a second; a mean is the floor of the exact mean and a  *)
(* standard deviation the floor of the exact square root.                  *)
(***************************************************************************)
EXTENDS Integers, Sequences, FiniteSets, TLC

(***************************************************************************)
(* Bounds of the model.                                                    *)
(***************************************************************************)
MaxThresholdRows == 2
MaxIncidents == 1
MaxPolls == 2

(***************************************************************************)
(* Program constants.                                                      *)
(***************************************************************************)
KEYSTROKE_FEATURES ==
    << "mean_du_key1_key1", "mean_dd_key1_key2", "mean_du_key1_key2",
       "mean_ud_key1_key2", "mean_uu_key1_key2", "std_du_key1_key1",
       "std_dd_key1_key2", "std_du_key1_key2", "std_ud_key1_key2",
       "std_uu_key1_key2", "keystroke_count" >>

MOUSE_FEATURES == << "inactive_duration", "copy_cut", "paste", "double_click" >>

\* if len(key_events) < 5: "gathering_data"
MIN_KEY_EVENTS == 5

\* severity cut-offs, in thousandths
SEVERITY_HIGH == 800
SEVERITY_MEDIUM == 600

\* avg_k_deviation > 0.5 or avg_m_deviation > 0.5, in thousandths
BOOST_DEVIATION == 500

\* the substitute baseline score 0.05 of save_baseline, in thousandths
FALLBACK_BASELINE_SCORE == 50

\* the bounds of the per-modality and of the final threshold, in thousandths
THRESHOLD_BUFFER == 350
MODALITY_THRESHOLD_MIN == 400
THRESHOLD_MIN == 550
THRESHOLD_MAX == 850

(***************************************************************************)
(* Small helpers on sequences of integers (numpy's sum, mean and std).     *)
(***************************************************************************)
Min2(a, b) == IF a <= b THEN a ELSE b
Max2(a, b) == IF a >= b THEN a ELSE b
Abs(a) == IF a < 0 THEN 0 - a ELSE a

RECURSIVE SumSeq(_)
SumSeq(s) == IF s = << >> THEN 0 ELSE Head(s) + SumSeq(Tail(s))

\* the integer square root, by bisection on lo..hi
RECURSIVE ISqrtIn(_, _, _)
ISqrtIn(n, lo, hi) ==
    IF lo >= hi THEN lo
    ELSE LET mid == (lo + hi + 1) \div 2
         IN  IF mid * mid <= n THEN ISqrtIn(n, mid, hi) ELSE ISqrtIn(n, lo, mid - 1)

ISqrt(n) == ISqrtIn(n, 0, Min2(n, 40000))

\* np.mean(xs) if len(xs) > 0 else 0.0
MeanOrZero(xs) == IF Len(xs) > 0 THEN SumSeq(xs) \div Len(xs) ELSE 0

\* np.std(xs) if len(xs) > 0 else 0.0 (population standard deviation)
StdOrZero(xs) ==
    IF Len(xs) > 0
    THEN LET m == SumSeq(xs) \div Len(xs)
             sq == [i \in 1..Len(xs) |-> (xs[i] - m) * (xs[i] - m)]
         IN  ISqrt(SumSeq(sq) \div Len(xs))
    ELSE 0

(***************************************************************************)
(* Raw events.  An event is a record that carries some of the fields       *)
(* timestamp, t, type, event_type, key, tab.  A pandas DataFrame built     *)
(* from a list of events has a column exactly for the fields some event    *)
(* carries; the lists used here are uniform (a field is carried by all or  *)
(* by none of a list's events), so no cell is NaN.                         *)
(***************************************************************************)
HasColumn(events, field) == \E i \in 1..Len(events) : field \in DOMAIN events[i]

\* df.sort_values('timestamp'): insertion into an ascending sequence
RECURSIVE InsertByTimestamp(_, _)
InsertByTimestamp(e, sorted) ==
    IF sorted = << >> THEN << e >>
    ELSE IF e.timestamp < Head(sorted).timestamp THEN << e >> \o sorted
    ELSE << Head(sorted) >> \o InsertByTimestamp(e, Tail(sorted))

RECURSIVE SortByTimestamp(_)
SortByTimestamp(events) ==
    IF events = << >> THEN << >>
    ELSE InsertByTimestamp(events[Len(events)],
                           SortByTimestamp(SubSeq(events, 1, Len(events) - 1)))

RECURSIVE SelectType(_, _)
SelectType(events, ty) ==
    IF events = << >> THEN << >>
    ELSE IF "type" \in DOMAIN Head(events) /\ Head(events).type = ty
         THEN << Head(events) >> \o SelectType(Tail(events), ty)
         ELSE SelectType(Tail(events), ty)

ZeroVector(n) == [i \in 1..n |-> 0]

(***************************************************************************)
(* KeystrokeFeatureExtractor._calculate_features, for len(raw_events) >= 2.*)
(* The result is [ok |-> FALSE] when pandas raises KeyError (no timestamp  *)
(* column for sort_values, no type column for df['type']).                 *)
(***************************************************************************)
\* hold_times: the i-th release minus the i-th press, by position
HoldTimes(presses, releases) ==
    [i \in 1..Min2(Len(presses), Len(releases)) |->
        releases[i].timestamp - presses[i].timestamp]

KeystrokeCalculate(raw_events) ==
    IF ~HasColumn(raw_events, "timestamp") \/ ~HasColumn(raw_events, "type")
    THEN [ok |-> FALSE, vec |-> << >>]
    ELSE
    LET df == SortByTimestamp(raw_events)
        presses == SelectType(df, "keydown")
        releases == SelectType(df, "keyup")
        hold_times == HoldTimes(presses, releases)
        \* for i in range(len(presses) - 1): if i < len(releases) - 1
        npairs == Max2(0, Min2(Len(presses) - 1, Len(releases) - 1))
        dd_list == [i \in 1..npairs |-> presses[i + 1].timestamp - presses[i].timestamp]
        ud_list == [i \in 1..npairs |-> presses[i + 1].timestamp - releases[i].timestamp]
        uu_list == [i \in 1..npairs |-> releases[i + 1].timestamp - releases[i].timestamp]
        du_list == [i \in 1..npairs |-> releases[i + 1].timestamp - presses[i].timestamp]
    IN  [ok |-> TRUE,
         vec |-> << MeanOrZero(hold_times), MeanOrZero(dd_list), MeanOrZero(du_list),
                    MeanOrZero(ud_list), MeanOrZero(uu_list), StdOrZero(hold_times),
                    StdOrZero(dd_list), StdOrZero(du_list), StdOrZero(ud_list),
                    StdOrZero(uu_list), Len(presses) >>]

(***************************************************************************)
(* KeystrokeFeatureExtractor.extract_features(events, baseline_stats=None),*)
(* the calibration-mode call both routes make: the raw vector.             *)
(***************************************************************************)
KeystrokeExtractRaw(events) ==
    IF Len(events) < 2
    THEN [ok |-> TRUE, vec |-> ZeroVector(Len(KEYSTROKE_FEATURES))]
    ELSE KeystrokeCalculate(events)

(***************************************************************************)
(* MouseFeatureExtractor._calculate_features.  The time field is           *)
(* normalised first (t is accepted for timestamp); df['timestamp'] raises  *)
(* KeyError when no event carries a time field.  The events are not        *)
(* sorted.  Counters read the column event_type, the inactive time the     *)
(* column tab.                                                             *)
(***************************************************************************)
NormalizeTime(e) ==
    IF "timestamp" \notin DOMAIN e /\ "t" \in DOMAIN e
    THEN [f \in DOMAIN e \cup {"timestamp"} |-> IF f = "timestamp" THEN e.t ELSE e[f]]
    ELSE e

CountEventType(df, types) ==
    IF HasColumn(df, "event_type")
    THEN Cardinality({i \in 1..Len(df) :
                        "event_type" \in DOMAIN df[i] /\ df[i].event_type \in types})
    ELSE 0

MouseCalculate(raw_events) ==
    IF raw_events = << >>
    THEN [ok |-> TRUE, vec |-> ZeroVector(Len(MOUSE_FEATURES))]
    ELSE
    LET df == [i \in 1..Len(raw_events) |-> NormalizeTime(raw_events[i])]
    IN  IF ~HasColumn(df, "timestamp")
        THEN [ok |-> FALSE, vec |-> << >>]
        ELSE
        LET duration == [i \in 1..Len(df) |->
                            IF i = 1 THEN 0 ELSE df[i].timestamp - df[i - 1].timestamp]
            inactive == [i \in 1..Len(df) |->
                            IF "tab" \in DOMAIN df[i] /\ df[i].tab = "active"
                            THEN 0 ELSE duration[i]]
            inactive_sum == IF HasColumn(df, "tab") THEN SumSeq(inactive) ELSE 0
        IN  [ok |-> TRUE,
             vec |-> << inactive_sum,
                        CountEventType(df, {"copy", "cut"}),
                        CountEventType(df, {"paste"}),
                        CountEventType(df, {"dblclick"}) >>]

\* MouseFeatureExtractor.extract_features(events, baseline_stats=None)
MouseExtractRaw(events) == MouseCalculate(events)


(***************************************************************************)
(* Identifiers and request payloads.  NoId is an absent (or empty) id.     *)
(* One student calibrates; the other one is only ever polled.              *)
(***************************************************************************)
NoId == "none"
Students == {"s1", "s2"}
CalibratingStudents == {"s1"}
CalibrationSessionIds == {"c1"}
ExamSessionIds == {"e1"}

KeyDown(k, ts) == [type |-> "keydown", key |-> k, timestamp |-> ts]
KeyUp(k, ts) == [type |-> "keyup", key |-> k, timestamp |-> ts]

\* three keys typed one after the other: 0.1 s hold, 0.3 s from key to key
KeysTyping ==
    << KeyDown("a", 0), KeyUp("a", 10), KeyDown("b", 30), KeyUp("b", 40),
       KeyDown("c", 60), KeyUp("c", 70) >>
\* the same rhythm with keys held 0.14 s
KeysFirm ==
    << KeyDown("a", 0), KeyUp("a", 14), KeyDown("b", 30), KeyUp("b", 44),
       KeyDown("c", 60), KeyUp("c", 74) >>
KeysOne == << KeyDown("a", 0) >>
\* five events without a timestamp field
KeysNoTimestamp ==
    << [type |-> "keydown", key |-> "a"], [type |-> "keyup", key |-> "a"],
       [type |-> "keydown", key |-> "b"], [type |-> "keyup", key |-> "b"],
       [type |-> "keydown", key |-> "c"] >>
\* two events without a type field
KeysNoType == << [key |-> "a", timestamp |-> 0], [key |-> "a", timestamp |-> 10] >>

MouseMoves ==
    << [type |-> "move", timestamp |-> 0], [type |-> "click", timestamp |-> 20] >>
\* the tab is left for 0.5 s, one copy and one paste are made
MouseCopyPaste ==
    << [event_type |-> "move", t |-> 0, tab |-> "active"],
       [event_type |-> "copy", t |-> 10, tab |-> "active"],
       [event_type |-> "move", t |-> 60, tab |-> "hidden"],
       [event_type |-> "paste", t |-> 70, tab |-> "active"] >>
\* one event without any time field
MouseNoTimestamp == << [type |-> "move"] >>

ExamKeyEvents == {<< >>, KeysOne, KeysTyping, KeysFirm, KeysNoTimestamp, KeysNoType}
ExamMouseEvents == {<< >>, MouseMoves, MouseCopyPaste, MouseNoTimestamp}
CalibrationKeyEvents == {KeysTyping, KeysNoType}
CalibrationMouseEvents == {MouseMoves, MouseCopyPaste, MouseNoTimestamp}

\* the extractors' results on the payloads above
KeystrokeFeatures ==
    [events \in ExamKeyEvents \cup CalibrationKeyEvents |-> KeystrokeExtractRaw(events)]
MouseFeatures ==
    [events \in ExamMouseEvents \cup CalibrationMouseEvents |-> MouseExtractRaw(events)]

(***************************************************************************)
(* The classifiers are opaque: the pickled models are no part of the       *)
(* sources.  A loaded model is a fixed function of its input vector; the   *)
(* two used here stand for the keystroke pipeline (predict_proba only) and *)
(* the mouse SVM (decision_function only).  The input is given in          *)
(* thousandths.  A call gives Value(v), or AttributeError when the object  *)
(* has no such method, which is also what a call on None gives, or Raises  *)
(* for another exception.                                                  *)
(***************************************************************************)
Value(v) == [kind |-> "value", v |-> v]
Raises == [kind |-> "raise", v |-> 0]
AttributeError == [kind |-> "AttributeError", v |-> 0]
IsValue(outcome) == outcome.kind = "value"

\* model.predict_proba(input)[0, 1]: 0.9 for a mean hold time of 0.12 s or
\* more, else 0.2
predict_proba(model, input) ==
    IF model = "xgboost_pipeline"
    THEN Value(IF input[1] >= 12000 THEN 900 ELSE 200)
    ELSE AttributeError

\* model.decision_function(input)[0]: ln 9 when the clipboard was used,
\* else ln 1/4
decision_function(model, input) ==
    IF model = "svm_model"
    THEN Value(IF input[2] + input[3] >= 1000 THEN 2197 ELSE -1386)
    ELSE AttributeError

\* float(1.0 / (1.0 + np.exp(-d))), d in thousandths
Sigmoid(d) ==
    CASE d = -1386 -> 200
      [] d = 0 -> 500
      [] d = 2197 -> 900

Thousandths(vec) == [i \in 1..Len(vec) |-> 1000 * vec[i]]

(***************************************************************************)
(* The store (Supabase): three tables.  A call on it succeeds or raises.   *)
(***************************************************************************)
VARIABLES
    personal_thresholds,    \* sequence of rows, in insertion order
    calibration_sessions,   \* session id -> "absent" | "in_progress" | "completed"
    cheating_incidents,     \* sequence of rows, in insertion order
    db_clock,               \* the store's clock, source of created_at
    keystroke_model,        \* the name keystroke_model of the route modules
    mouse_model,            \* the name mouse_model of the route modules
    resp,                   \* the response of the last request
    obs,                    \* what the last request did (observation only)
    calibrated,             \* per student, the last baseline saved with success
                            \* (observation only)
    SESSION_FEATURE_HISTORY, \* utils.session_state: exam session id -> vectors
    polls,                  \* per worker thread, the exam poll it is handling
    poll_log,               \* what the polls handled so far did (observation only)
    call                    \* the last call of a pure function: its arguments
                            \* and what it gave back

vars == << personal_thresholds, calibration_sessions, cheating_incidents, db_clock,
           keystroke_model, mouse_model, resp, obs, calibrated,
           SESSION_FEATURE_HISTORY, polls, poll_log, call >>

\* json.dumps / json.loads of the baseline package: the text is kept as a
\* tagged value, loads gives back the structure that was dumped
JsonDumps(value) == [json |-> value]
JsonLoads(text) == text.json

NoResponse ==
    [op |-> "none", code |-> 0, status |-> "", error |-> "", has_score |-> FALSE,
     keystroke_score |-> 0, mouse_score |-> 0, fusion_risk_score |-> 0,
     personalized_threshold |-> 0, threshold_exceeded |-> FALSE,
     incident_logged |-> FALSE, cheating_incident_count |-> 0, severity |-> "",
     samples_processed |-> 0]

NoObs ==
    [student |-> NoId, session |-> NoId, had_row |-> FALSE, scored |-> FALSE,
     classifier_calls |-> 0, substituted |-> FALSE, model_missing |-> FALSE,
     incident_writes |-> 0, incident_write_failed |-> FALSE,
     incidents_before |-> 0, used_stats |-> << >>, saved |-> FALSE,
     missing_entry |-> FALSE, step2 |-> FALSE, key_events_len |-> 0]

StoreOutcomes == {"ok", "raise"}
\* an insert may also hand back a response object that carries an error
InsertOutcomes == {"ok", "raise", "error_response"}

DetailedStats(names, raw) ==
    [n \in {names[i] : i \in 1..Len(names)} |->
        [mean |-> raw[CHOOSE i \in 1..Len(names) : names[i] = n], std |-> 1000]]


(***************************************************************************)
(* db_helpers.create_calibration_session: one insert; the new id on        *)
(* success, None (NoId) when the store raises.                             *)
(***************************************************************************)
create_calibration_session(sessions, new_id, outcome) ==
    IF outcome = "ok"
    THEN [sessions |-> [sessions EXCEPT ![new_id] = "in_progress"], ret |-> new_id]
    ELSE [sessions |-> sessions, ret |-> NoId]

(***************************************************************************)
(* db_helpers.save_personalized_thresholds: insert the row, then mark the  *)
(* session completed.  False when the insert raises or returns an error,   *)
(* and when the update raises.                                             *)
(***************************************************************************)
ThresholdRow(student_id, session_id, fusion_mean, fusion_std, threshold, stats, course_name, now) ==
    [student_id |-> student_id, calibration_session_id |-> session_id,
     fusion_mean |-> fusion_mean, fusion_std |-> fusion_std,
     threshold |-> threshold, baseline_stats |-> JsonDumps(stats),
     course_name |-> course_name, created_at |-> now]

\* .update({"status": "completed"}).eq("id", session_id)
MarkCompleted(sessions, session_id) ==
    [id \in DOMAIN sessions |->
        IF id = session_id /\ sessions[id] # "absent" THEN "completed" ELSE sessions[id]]

\* variant: an upsert on student_id in place of the insert
InsertThresholdUpsert(rows, row) ==
    IF \E i \in 1..Len(rows) : rows[i].student_id = row.student_id
    THEN [i \in 1..Len(rows) |->
             IF rows[i].student_id = row.student_id THEN row ELSE rows[i]]
    ELSE Append(rows, row)

\* .insert({...}) into personal_thresholds; created_at is the store's clock
InsertThreshold(rows, row) == Append(rows, row)

\* variant: the session is marked completed before the insert is tried
SaveCompletingFirst(rows, sessions, clock, student_id, session_id, fusion_mean, fusion_std, threshold, stats, course_name, insert_outcome, update_outcome) ==
    IF update_outcome # "ok"
    THEN [rows |-> rows, sessions |-> sessions, clock |-> clock, ret |-> FALSE]
    ELSE IF insert_outcome # "ok"
    THEN [rows |-> rows, sessions |-> MarkCompleted(sessions, session_id),
          clock |-> clock, ret |-> FALSE]
    ELSE [rows |-> InsertThreshold(
                       rows, ThresholdRow(student_id, session_id, fusion_mean,
                                          fusion_std, threshold, stats, course_name,
                                          clock + 1)),
          sessions |-> MarkCompleted(sessions, session_id),
          clock |-> clock + 1, ret |-> TRUE]

save_personalized_thresholds(rows, sessions, clock, student_id, session_id, fusion_mean, fusion_std, threshold, stats, course_name, insert_outcome, update_outcome) ==
    IF insert_outcome # "ok"
    THEN [rows |-> rows, sessions |-> sessions, clock |-> clock, ret |-> FALSE]
    ELSE LET row == ThresholdRow(student_id, session_id, fusion_mean, fusion_std,
                                 threshold, stats, course_name, clock + 1)
             inserted == InsertThreshold(rows, row)
         IN  IF update_outcome # "ok"
             THEN [rows |-> inserted, sessions |-> sessions, clock |-> clock + 1,
                   ret |-> FALSE]
             ELSE [rows |-> inserted, sessions |-> MarkCompleted(sessions, session_id),
                   clock |-> clock + 1, ret |-> TRUE]

(***************************************************************************)
(* db_helpers.get_student_baseline: the student's rows, newest first,      *)
(* limit 1, single.  None (here [found |-> FALSE]) when there is no row or *)
(* the store raises.                                                       *)
(***************************************************************************)
RECURSIVE InsertByCreatedAtDesc(_, _)
InsertByCreatedAtDesc(r, sorted) ==
    IF sorted = << >> THEN << r >>
    ELSE IF r.created_at > Head(sorted).created_at THEN << r >> \o sorted
    ELSE << Head(sorted) >> \o InsertByCreatedAtDesc(r, Tail(sorted))

\* variant: ascending order, the order of insertion
OrderByCreatedAtAsc(rows) == rows

\* .order("created_at", desc=True)
RECURSIVE OrderByCreatedAtDesc(_)
OrderByCreatedAtDesc(rows) ==
    IF rows = << >> THEN << >>
    ELSE InsertByCreatedAtDesc(Head(rows), OrderByCreatedAtDesc(Tail(rows)))

\* variant: the filter on the student is missing
RowsOfAnyStudent(rows, student_id) == rows

\* .eq("student_id", student_id)
RECURSIVE RowsOfStudent(_, _)
RowsOfStudent(rows, student_id) ==
    IF rows = << >> THEN << >>
    ELSE IF Head(rows).student_id = student_id
         THEN << Head(rows) >> \o RowsOfStudent(Tail(rows), student_id)
         ELSE RowsOfStudent(Tail(rows), student_id)

NoBaseline == [found |-> FALSE, stats |-> << >>, system_threshold |-> 0]

get_student_baseline(rows, student_id, select_outcome) ==
    LET selected == OrderByCreatedAtDesc(RowsOfStudent(rows, student_id))
    IN  IF select_outcome # "ok" \/ selected = << >>
        THEN NoBaseline
        ELSE [found |-> TRUE,
              stats |-> JsonLoads(Head(selected).baseline_stats),
              system_threshold |-> Head(selected).threshold]

(***************************************************************************)
(* db_helpers.save_anomaly_record: severity from the score, one insert;    *)
(* False when the insert raises.                                           *)
(***************************************************************************)
\* variant: the cut-off of "high" read as strictly above 0.9
RecordSeverityAbove(final_risk_score) ==
    IF final_risk_score > 900 THEN "high"
    ELSE IF final_risk_score >= SEVERITY_MEDIUM THEN "medium"
    ELSE "low"

RecordSeverity(final_risk_score) ==
    IF final_risk_score >= SEVERITY_HIGH THEN "high"
    ELSE IF final_risk_score >= SEVERITY_MEDIUM THEN "medium"
    ELSE "low"

\* variant: True is returned whatever the insert did
SaveAnomalyAlwaysTrue(incidents, session_id, final_risk_score, incident_details, insert_outcome) ==
    [incidents |->
         IF insert_outcome = "ok"
         THEN Append(incidents,
                     [session_id |-> session_id,
                      incident_type |-> "behavioral_anomaly",
                      severity_score |-> final_risk_score,
                      severity |-> IF final_risk_score >= SEVERITY_HIGH THEN "high"
                                   ELSE IF final_risk_score >= SEVERITY_MEDIUM
                                   THEN "medium" ELSE "low",
                      details |-> incident_details])
         ELSE incidents,
     ret |-> TRUE]

save_anomaly_record(incidents, session_id, final_risk_score, incident_details, insert_outcome) ==
    IF insert_outcome = "ok"
    THEN [incidents |-> Append(incidents,
                               [session_id |-> session_id,
                                incident_type |-> "behavioral_anomaly",
                                severity_score |-> final_risk_score,
                                severity |-> RecordSeverity(final_risk_score),
                                details |-> incident_details]),
          ret |-> TRUE]
    ELSE [incidents |-> incidents, ret |-> FALSE]

(***************************************************************************)
(* exam_routes.analyze_behavior, its steps.                                *)
(***************************************************************************)
\* Step 3: relative deviation of one feature from its baseline mean
DeviationPct(current_val, baseline_mean) ==
    IF baseline_mean # 0
    THEN (1000 * Abs(current_val - baseline_mean)) \div Abs(baseline_mean)
    ELSE IF current_val = 0 THEN 0 ELSE 1000

Deviations(names, current, detailed_stats) ==
    [i \in 1..Len(names) |-> DeviationPct(current[i], detailed_stats[names[i]].mean)]

\* np.mean(deviations) > 0.5
HighDeviation(deviations) == SumSeq(deviations) > BOOST_DEVIATION * Len(deviations)

\* Step 4, keystroke: predict_proba on the raw vector, any exception gives 0.0
ExamKeystrokeScore(model, k_input) ==
    LET k_proba == predict_proba(model, k_input)
    IN  IF IsValue(k_proba)
        THEN [score |-> k_proba.v, substituted |-> FALSE]
        ELSE [score |-> 0, substituted |-> TRUE]

\* Step 4, mouse: decision_function through the sigmoid; on AttributeError
\* predict_proba, any exception of which gives 0.0; another exception of
\* decision_function is not caught here
ExamMouseScore(model, m_input) ==
    LET m_decision == decision_function(model, m_input)
        m_proba == predict_proba(model, m_input)
    IN  IF IsValue(m_decision)
        THEN [ok |-> TRUE, score |-> Sigmoid(m_decision.v), substituted |-> FALSE]
        ELSE IF m_decision = AttributeError
        THEN IF IsValue(m_proba)
             THEN [ok |-> TRUE, score |-> m_proba.v, substituted |-> FALSE]
             ELSE [ok |-> TRUE, score |-> 0, substituted |-> TRUE]
        ELSE [ok |-> FALSE, score |-> 0, substituted |-> FALSE]

\* variant: the boosted score is not capped
FusionScoreUncapped(k_score, m_score, boost) ==
    LET fusion_score == (5 * k_score + 5 * m_score) \div 10
    IN  IF boost THEN (fusion_score * 12) \div 10 ELSE fusion_score

\* Step 5: 0.5/0.5 fusion, times 1.2 and capped at 1.0 when a deviation is high
FusionScore(k_score, m_score, boost) ==
    LET fusion_score == (5 * k_score + 5 * m_score) \div 10
    IN  IF boost THEN Min2(1000, (fusion_score * 12) \div 10) ELSE fusion_score

\* variant: strictly above the threshold
ThresholdStrictlyExceeded(fusion_score, personalized_threshold) ==
    fusion_score > personalized_threshold

\* Step 6: the condition of the incident write
ThresholdExceeded(fusion_score, personalized_threshold) ==
    fusion_score >= personalized_threshold

\* variant: a flag (any row of the session) in place of the count
CountIncidentsAsFlag(incidents, session_id, select_outcome) ==
    IF select_outcome = "ok"
       /\ \E i \in 1..Len(incidents) : incidents[i].session_id = session_id
    THEN 1 ELSE 0

\* variant: the filter on the session is missing
CountIncidentsOfAllSessions(incidents, session_id, select_outcome) ==
    IF select_outcome = "ok" THEN Len(incidents) ELSE 0

\* Step 7: the count query; 0 when it raises
CountIncidents(incidents, session_id, select_outcome) ==
    IF select_outcome = "ok"
    THEN Cardinality({i \in 1..Len(incidents) : incidents[i].session_id = session_id})
    ELSE 0

\* Step 8: the severity of the response
ResponseSeverity(fusion_score) ==
    IF fusion_score >= SEVERITY_HIGH THEN "high"
    ELSE IF fusion_score >= SEVERITY_MEDIUM THEN "medium"
    ELSE "low"

ErrorResponse(op, code, message) ==
    [NoResponse EXCEPT !.op = op, !.code = code, !.status = "error", !.error = message]

\* Step 1, the KeyError guard: both modalities carry detailed_stats
HasDetailedStats(baseline_stats) ==
    /\ "keystroke" \in DOMAIN baseline_stats
    /\ "detailed_stats" \in DOMAIN baseline_stats.keystroke
    /\ "mouse" \in DOMAIN baseline_stats
    /\ "detailed_stats" \in DOMAIN baseline_stats.mouse

\* Step 3 reads detailed_stats[feat_name]['mean'] for every feature name;
\* a name without an entry raises KeyError
MissingEntry(names, detailed_stats) ==
    \E i \in 1..Len(names) : names[i] \notin DOMAIN detailed_stats

DeviationKeyError(baseline_stats) ==
    \/ MissingEntry(KEYSTROKE_FEATURES, baseline_stats.keystroke.detailed_stats)
    \/ MissingEntry(MOUSE_FEATURES, baseline_stats.mouse.detailed_stats)

\* Steps 3 to 5 for one poll
ExamScoring(baseline, k_current, m_current, k_model, m_model) ==
    LET k_detailed_stats == baseline.stats.keystroke.detailed_stats
        m_detailed_stats == baseline.stats.mouse.detailed_stats
        k_deviations == Deviations(KEYSTROKE_FEATURES, k_current, k_detailed_stats)
        m_deviations == Deviations(MOUSE_FEATURES, m_current, m_detailed_stats)
        k == ExamKeystrokeScore(k_model, Thousandths(k_current))
        m == ExamMouseScore(m_model, Thousandths(m_current))
    IN  [ok |-> m.ok,
         k_score |-> k.score,
         m_score |-> m.score,
         substituted |-> k.substituted \/ m.substituted,
         fusion_score |->
             FusionScore(k.score, m.score,
                         HighDeviation(k_deviations) \/ HighDeviation(m_deviations))]

\* Steps 6 to 8 for one poll, given the outcome of the store calls
PollDecision(exam_session_id, personalized_threshold, sc, insert_outcome, count_outcome, o) ==
    LET exceeded == ThresholdExceeded(sc.fusion_score, personalized_threshold)
        saved == save_anomaly_record(
                     cheating_incidents, exam_session_id, sc.fusion_score,
                     [keystroke_score |-> sc.k_score, mouse_score |-> sc.m_score,
                      threshold |-> personalized_threshold,
                      exceeded_by |-> sc.fusion_score - personalized_threshold],
                     insert_outcome)
        incidents == IF exceeded THEN saved.incidents ELSE cheating_incidents
    IN  /\ cheating_incidents' = incidents
        /\ resp' = [NoResponse EXCEPT
                      !.op = "poll", !.code = 200, !.status = "analyzed",
                      !.has_score = TRUE,
                      !.keystroke_score = sc.k_score,
                      !.mouse_score = sc.m_score,
                      !.fusion_risk_score = sc.fusion_score,
                      !.personalized_threshold = personalized_threshold,
                      !.threshold_exceeded =
                          ThresholdExceeded(sc.fusion_score, personalized_threshold),
                      !.incident_logged = IF exceeded THEN saved.ret ELSE FALSE,
                      !.cheating_incident_count =
                          CountIncidents(incidents, exam_session_id, count_outcome),
                      !.severity = ResponseSeverity(sc.fusion_score)]
        /\ obs' = [o EXCEPT !.scored = TRUE,
                            !.incident_writes = IF exceeded THEN 1 ELSE 0,
                            !.incident_write_failed = exceeded /\ insert_outcome # "ok"]

(***************************************************************************)
(* exam_routes.analyze_behavior: one exam poll.                            *)
(***************************************************************************)
AnalyzeBehavior ==
    /\ Len(cheating_incidents) < MaxIncidents
    /\ UNCHANGED << personal_thresholds, calibration_sessions, db_clock,
                    keystroke_model, mouse_model, calibrated >>
    \* the route imports SESSION_FEATURE_HISTORY and never reads or writes it
    /\ UNCHANGED SESSION_FEATURE_HISTORY
    /\ UNCHANGED << polls, poll_log, call >>
    /\ \E student_id \in Students \cup {NoId}, exam_session_id \in ExamSessionIds \cup {NoId} :
        LET o == [NoObs EXCEPT
                    !.student = student_id, !.session = exam_session_id,
                    !.had_row = \E i \in 1..Len(personal_thresholds) :
                                    personal_thresholds[i].student_id = student_id,
                    !.model_missing = keystroke_model = "None" \/ mouse_model = "None",
                    !.incidents_before = Len(cheating_incidents)]
        IN
        IF student_id = NoId \/ exam_session_id = NoId
        THEN /\ resp' = ErrorResponse("poll", 400, "Missing required identifiers")
             /\ obs' = o
             /\ UNCHANGED cheating_incidents
        ELSE \E select_outcome \in StoreOutcomes :
             \E baseline \in {get_student_baseline(personal_thresholds, student_id,
                                                   select_outcome)} :
            IF ~baseline.found
            THEN /\ resp' = [NoResponse EXCEPT !.op = "poll", !.code = 200,
                                               !.status = "no_baseline"]
                 /\ obs' = o
                 /\ UNCHANGED cheating_incidents
            ELSE IF ~HasDetailedStats(baseline.stats)
            THEN /\ resp' = ErrorResponse("poll", 500, "Baseline data incomplete")
                 /\ obs' = [o EXCEPT !.used_stats = baseline.stats]
                 /\ UNCHANGED cheating_incidents
            ELSE \E key_events \in ExamKeyEvents, mouse_events \in ExamMouseEvents :
                LET k == KeystrokeFeatures[key_events]
                    m == MouseFeatures[mouse_events]
                    \* step 2 reached; len(key_events) as read at l.90
                    o1 == [o EXCEPT !.used_stats = baseline.stats, !.step2 = TRUE,
                                    !.key_events_len = Len(key_events)]
                IN
                IF ~k.ok \/ ~m.ok
                THEN /\ resp' = ErrorResponse("poll", 500, "Analysis failed")
                     /\ obs' = o1
                     /\ UNCHANGED cheating_incidents
                ELSE IF Len(key_events) < MIN_KEY_EVENTS
                THEN /\ resp' = [NoResponse EXCEPT !.op = "poll", !.code = 200,
                                                   !.status = "gathering_data",
                                                   !.has_score = TRUE]
                     /\ obs' = o1
                     /\ UNCHANGED cheating_incidents
                ELSE IF DeviationKeyError(baseline.stats)
                THEN /\ resp' = ErrorResponse("poll", 500, "Analysis failed")
                     /\ obs' = [o1 EXCEPT !.missing_entry = TRUE]
                     /\ UNCHANGED cheating_incidents
                ELSE \E sc \in {ExamScoring(baseline, k.vec, m.vec,
                                            keystroke_model, mouse_model)} :
                    LET o2 == [o1 EXCEPT !.classifier_calls = 2,
                                         !.substituted = sc.substituted]
                    IN
                    IF ~sc.ok
                    THEN /\ resp' = ErrorResponse("poll", 500, "Analysis failed")
                         /\ obs' = o2
                         /\ UNCHANGED cheating_incidents
                    ELSE \E insert_outcome \in
                              IF ThresholdExceeded(sc.fusion_score,
                                                   baseline.system_threshold)
                              THEN StoreOutcomes ELSE {"ok"},
                            count_outcome \in StoreOutcomes :
                            PollDecision(exam_session_id, baseline.system_threshold,
                                         sc, insert_outcome, count_outcome, o2)


(***************************************************************************)
(* calibration_routes.save_baseline, its steps.                            *)
(***************************************************************************)
\* Step 2: [(x - mean) / max(std, EPSILON) for x in raw], in thousandths;
\* mean and std are taken in tenths
NormalizedFeatures(raw) ==
    LET n == Len(raw)
        mean_d == (10 * SumSeq(raw)) \div n
        dev_d == [i \in 1..n |-> 10 * raw[i] - mean_d]
        std_d == ISqrt(SumSeq([i \in 1..n |-> dev_d[i] * dev_d[i]]) \div n)
    IN  [i \in 1..n |->
            IF std_d > 0 THEN (1000 * dev_d[i]) \div std_d
            ELSE IF dev_d[i] = 0 THEN 0
            ELSE IF dev_d[i] > 0 THEN 1000000000 ELSE 0 - 1000000000]

\* the probability the detection looks at: predict_proba when the object
\* has it, else the sigmoid of decision_function
DetectionProba(model, input) ==
    IF predict_proba(model, input) # AttributeError
    THEN predict_proba(model, input)
    ELSE IF IsValue(decision_function(model, input))
         THEN Value(Sigmoid(decision_function(model, input).v))
         ELSE decision_function(model, input)

check_model_expects_normalization(model, sample_raw, sample_norm) ==
    LET proba_raw == DetectionProba(model, Thousandths(sample_raw))
        proba_norm == DetectionProba(model, sample_norm)
    IN  IF ~IsValue(proba_raw) \/ ~IsValue(proba_norm) THEN FALSE
        ELSE /\ 10 < proba_norm.v
             /\ proba_norm.v < 990
             /\ (proba_raw.v = 0 \/ proba_raw.v = 1000)

\* Step 5, validation: a score of exactly 0.0 or 1.0 is replaced by 0.05
ValidatedScore(score) ==
    IF score = 0 \/ score = 1000 THEN FALLBACK_BASELINE_SCORE ELSE score

\* Step 5: the two baseline scores; both 0.05 when a model is None or a
\* call raises
FallbackScores ==
    [k |-> FALLBACK_BASELINE_SCORE, m |-> FALLBACK_BASELINE_SCORE, substituted |-> TRUE]

BaselineScores(k_model, m_model, k_input, m_input) ==
    LET k_proba == predict_proba(k_model, k_input)
        m_decision == decision_function(m_model, m_input)
        m_proba == predict_proba(m_model, m_input)
    IN  IF k_model = "None" \/ m_model = "None" THEN FallbackScores
        ELSE IF ~IsValue(k_proba) THEN FallbackScores
        ELSE IF IsValue(m_decision)
        THEN [k |-> ValidatedScore(k_proba.v),
              m |-> ValidatedScore(Sigmoid(m_decision.v)),
              substituted |-> k_proba.v \in {0, 1000}
                              \/ Sigmoid(m_decision.v) \in {0, 1000}]
        ELSE IF m_decision = AttributeError /\ IsValue(m_proba)
        THEN [k |-> ValidatedScore(k_proba.v),
              m |-> ValidatedScore(m_proba.v),
              substituted |-> k_proba.v \in {0, 1000} \/ m_proba.v \in {0, 1000}]
        ELSE FallbackScores

\* Step 6: max(0.4, min(0.85, score + 0.35)) per modality, the 0.5/0.5
\* mean, then max(0.55, min(0.85, .))
ModalityThreshold(baseline_score) ==
    Max2(MODALITY_THRESHOLD_MIN, Min2(THRESHOLD_MAX, baseline_score + THRESHOLD_BUFFER))

\* variant: the final max(0.55, .) is missing
PersonalizedThresholdWithoutFloor(k_baseline_score, m_baseline_score) ==
    LET k_threshold == ModalityThreshold(k_baseline_score)
        m_threshold == ModalityThreshold(m_baseline_score)
    IN  Min2(THRESHOLD_MAX, (5 * k_threshold + 5 * m_threshold) \div 10)

PersonalizedThreshold(k_baseline_score, m_baseline_score) ==
    LET k_threshold == ModalityThreshold(k_baseline_score)
        m_threshold == ModalityThreshold(m_baseline_score)
    IN  Max2(THRESHOLD_MIN,
             Min2(THRESHOLD_MAX, (5 * k_threshold + 5 * m_threshold) \div 10))

\* Steps 4 and 7: the package stored as baseline_stats
BaselinePackage(k_features_raw, m_features_raw, k_needs_norm, m_needs_norm) ==
    [keystroke |-> [detailed_stats |-> DetailedStats(KEYSTROKE_FEATURES, k_features_raw),
                    needs_normalization |-> k_needs_norm],
     mouse |-> [detailed_stats |-> DetailedStats(MOUSE_FEATURES, m_features_raw),
                needs_normalization |-> m_needs_norm]]

\* Steps 2 to 7 up to the store call: what the request is about to save
BaselineToSave(k_features_raw, m_features_raw, k_model, m_model) ==
    LET k_needs_norm == check_model_expects_normalization(
                            k_model, k_features_raw, NormalizedFeatures(k_features_raw))
        m_needs_norm == check_model_expects_normalization(
                            m_model, m_features_raw, NormalizedFeatures(m_features_raw))
        scores == BaselineScores(
                      k_model, m_model,
                      IF k_needs_norm THEN NormalizedFeatures(k_features_raw)
                      ELSE Thousandths(k_features_raw),
                      IF m_needs_norm THEN NormalizedFeatures(m_features_raw)
                      ELSE Thousandths(m_features_raw))
        all_features == k_features_raw \o m_features_raw
    IN  [scores |-> scores,
         threshold |-> PersonalizedThreshold(scores.k, scores.m),
         package |-> BaselinePackage(k_features_raw, m_features_raw,
                                     k_needs_norm, m_needs_norm),
         fusion_mean |-> MeanOrZero(all_features),
         fusion_std |-> StdOrZero(all_features)]

(***************************************************************************)
(* calibration_routes.save_baseline: one calibration request.              *)
(***************************************************************************)
SaveBaseline ==
    /\ Len(personal_thresholds) < MaxThresholdRows
    /\ UNCHANGED << cheating_incidents, keystroke_model, mouse_model,
                    SESSION_FEATURE_HISTORY, polls, poll_log, call >>
    /\ \E student_id \in CalibratingStudents \cup {NoId},
          calibration_session_id \in CalibrationSessionIds \cup {NoId} :
        LET o == [NoObs EXCEPT
                    !.student = student_id, !.session = calibration_session_id,
                    !.model_missing = keystroke_model = "None" \/ mouse_model = "None"]
        IN
        IF student_id = NoId \/ calibration_session_id = NoId
        THEN /\ resp' = ErrorResponse("save_baseline", 400, "Missing required fields")
             /\ obs' = o
             /\ UNCHANGED << personal_thresholds, calibration_sessions, db_clock,
                             calibrated >>
        ELSE \E keystroke_events \in CalibrationKeyEvents,
                mouse_events \in CalibrationMouseEvents :
            LET k == KeystrokeFeatures[keystroke_events]
                m == MouseFeatures[mouse_events]
            IN
            IF ~k.ok \/ ~m.ok
            THEN /\ resp' = ErrorResponse("save_baseline", 500, "Calibration failed")
                 /\ obs' = o
                 /\ UNCHANGED << personal_thresholds, calibration_sessions, db_clock,
                                 calibrated >>
            ELSE \E b \in {BaselineToSave(k.vec, m.vec, keystroke_model, mouse_model)} :
                 \E insert_outcome \in InsertOutcomes :
                 \E update_outcome \in IF insert_outcome = "ok" THEN StoreOutcomes
                                       ELSE {"ok"} :
                 \E saved \in {save_personalized_thresholds(
                                   personal_thresholds, calibration_sessions, db_clock,
                                   student_id, calibration_session_id, b.fusion_mean,
                                   b.fusion_std, b.threshold, b.package, "General",
                                   insert_outcome, update_outcome)} :
                    /\ personal_thresholds' = saved.rows
                    /\ calibration_sessions' = saved.sessions
                    /\ db_clock' = saved.clock
                    /\ obs' = [o EXCEPT !.classifier_calls =
                                            IF o.model_missing THEN 0 ELSE 2,
                                        !.substituted = b.scores.substituted,
                                        !.saved = saved.ret]
                    /\ resp' =
                        IF saved.ret
                        THEN [NoResponse EXCEPT
                                !.op = "save_baseline", !.code = 200,
                                !.status = "baseline_saved", !.has_score = TRUE,
                                !.keystroke_score = b.scores.k,
                                !.mouse_score = b.scores.m,
                                !.personalized_threshold = b.threshold]
                        ELSE ErrorResponse("save_baseline", 500, "Failed to save baseline")
                    /\ calibrated' =
                        IF saved.ret
                        THEN [calibrated EXCEPT ![student_id] =
                                 [done |-> TRUE, threshold |-> b.threshold,
                                  stats |-> b.package, stray |-> FALSE]]
                        ELSE IF Len(saved.rows) > Len(personal_thresholds)
                        THEN [calibrated EXCEPT ![student_id].stray = TRUE]
                        ELSE calibrated

(***************************************************************************)
(* db_helpers.create_calibration_session as an operation of its own: the   *)
(* store gives the new session a fresh id.                                 *)
(***************************************************************************)
CreateCalibrationSession ==
    /\ \E id \in CalibrationSessionIds : calibration_sessions[id] = "absent"
    /\ \E outcome \in StoreOutcomes :
        LET new_id == CHOOSE id \in CalibrationSessionIds :
                          calibration_sessions[id] = "absent"
            created == create_calibration_session(calibration_sessions, new_id, outcome)
        IN  /\ calibration_sessions' = created.sessions
            /\ resp' = [NoResponse EXCEPT !.op = "create_calibration_session",
                                          !.status = created.ret]
            /\ obs' = [NoObs EXCEPT !.session = created.ret]
    /\ UNCHANGED << personal_thresholds, cheating_incidents, db_clock,
                    keystroke_model, mouse_model, calibrated,
                    SESSION_FEATURE_HISTORY, polls, poll_log, call >>

(***************************************************************************)
(* State outside the store.  utils/session_state.py is no part of the      *)
(* sources: SESSION_FEATURE_HISTORY is taken to start as an empty dict.    *)
(* The worker threads are idle and no pure function has been called.       *)
(***************************************************************************)
EmptyFeatureHistory == [s \in {} |-> << >>]

Workers == {"w1", "w2"}
PollSessionIds == {"e1", "e2"}

IdlePoll ==
    [pc |-> "idle", session |-> NoId, k_score |-> 0, m_score |-> 0,
     fusion_score |-> 0, personalized_threshold |-> 0, logged_before |-> 0,
     incident_logged |-> FALSE, count_outcome |-> "", cheating_incident_count |-> 0]

\* started: polls received; logged: per session, incident rows inserted;
\* completed: per session, incident rows inserted by polls that have answered
NoPollLog ==
    [started |-> 0, logged |-> [s \in PollSessionIds |-> 0],
     completed |-> [s \in PollSessionIds |-> 0]]

NoCall == [fn |-> "none"]

(***************************************************************************)
(* The routes.  The tables start empty; each model name of the route       *)
(* modules is None or bound to its loaded model, as the import order of    *)
(* the deployment leaves it (SpecStartup has the order of app.py), and     *)
(* never changes afterwards.                                               *)
(***************************************************************************)
Init ==
    /\ personal_thresholds = << >>
    /\ calibration_sessions = [id \in CalibrationSessionIds |-> "absent"]
    /\ cheating_incidents = << >>
    /\ db_clock = 0
    /\ keystroke_model \in {"None", "xgboost_pipeline"}
    /\ mouse_model \in {"None", "svm_model"}
    /\ resp = NoResponse
    /\ obs = NoObs
    /\ calibrated = [s \in CalibratingStudents |->
                        [done |-> FALSE, threshold |-> 0, stats |-> << >>,
                         stray |-> FALSE]]
    /\ SESSION_FEATURE_HISTORY = EmptyFeatureHistory
    /\ polls = [w \in Workers |-> IdlePoll]
    /\ poll_log = NoPollLog
    /\ call = NoCall

Next ==
    \/ CreateCalibrationSession
    \/ SaveBaseline
    \/ AnalyzeBehavior

Spec == Init /\ [][Next]_vars


(***************************************************************************)
(* Concurrent exam polls.  Flask handles requests on threads; a poll       *)
(* touches shared state only in its store round trips, so a scoring poll   *)
(* is three steps: receive (baseline read, extraction, scoring), the       *)
(* incident write, and the count query with the answer.  The store is as   *)
(* one successful calibration of s1 leaves it.                             *)
(***************************************************************************)
PollKeyEvents == {KeysTyping, KeysFirm}
PollMouseEvents == {MouseMoves, MouseCopyPaste}

CalibratedBaseline ==
    BaselineToSave(KeystrokeFeatures[KeysTyping].vec, MouseFeatures[MouseMoves].vec,
                   "xgboost_pipeline", "svm_model")

CalibratedStore ==
    save_personalized_thresholds(
        << >>, [id \in CalibrationSessionIds |-> "absent"], 0, "s1", "c1",
        CalibratedBaseline.fusion_mean, CalibratedBaseline.fusion_std,
        CalibratedBaseline.threshold, CalibratedBaseline.package, "General",
        "ok", "ok")

\* the state after SaveBaseline for s1 from the initial state, models loaded
CalibratedOnce ==
    /\ personal_thresholds = CalibratedStore.rows
    /\ calibration_sessions = CalibratedStore.sessions
    /\ db_clock = CalibratedStore.clock
    /\ cheating_incidents = << >>
    /\ keystroke_model = "xgboost_pipeline"
    /\ mouse_model = "svm_model"
    /\ resp = [NoResponse EXCEPT
                 !.op = "save_baseline", !.code = 200, !.status = "baseline_saved",
                 !.has_score = TRUE,
                 !.keystroke_score = CalibratedBaseline.scores.k,
                 !.mouse_score = CalibratedBaseline.scores.m,
                 !.personalized_threshold = CalibratedBaseline.threshold]
    /\ obs = [NoObs EXCEPT !.student = "s1", !.session = "c1",
                           !.classifier_calls = 2, !.saved = TRUE]
    /\ calibrated = [s \in CalibratingStudents |->
                        [done |-> TRUE, threshold |-> CalibratedBaseline.threshold,
                         stats |-> CalibratedBaseline.package, stray |-> FALSE]]

\* Steps 1 to 5 of analyze_behavior on worker w
PollReceive(w) ==
    /\ polls[w].pc \in {"idle", "done"}
    /\ poll_log.started < MaxPolls
    /\ \E exam_session_id \in PollSessionIds,
          key_events \in PollKeyEvents, mouse_events \in PollMouseEvents :
       \E baseline \in {get_student_baseline(personal_thresholds, "s1", "ok")} :
       \E sc \in {ExamScoring(baseline, KeystrokeFeatures[key_events].vec,
                              MouseFeatures[mouse_events].vec,
                              keystroke_model, mouse_model)} :
            /\ baseline.found /\ sc.ok
            /\ polls' = [polls EXCEPT ![w] =
                   [IdlePoll EXCEPT
                      !.pc = "scored", !.session = exam_session_id,
                      !.k_score = sc.k_score, !.m_score = sc.m_score,
                      !.fusion_score = sc.fusion_score,
                      !.personalized_threshold = baseline.system_threshold]]
    /\ poll_log' = [poll_log EXCEPT !.started = @ + 1]
    /\ UNCHANGED << personal_thresholds, calibration_sessions, cheating_incidents,
                    db_clock, keystroke_model, mouse_model, resp, obs, calibrated,
                    SESSION_FEATURE_HISTORY, call >>

\* Step 6 on worker w: the incident write, when the threshold is reached
PollLogIncident(w) ==
    /\ polls[w].pc = "scored"
    /\ LET p == polls[w] IN
       IF ThresholdExceeded(p.fusion_score, p.personalized_threshold)
       THEN \E insert_outcome \in StoreOutcomes :
            \E saved \in {save_anomaly_record(
                              cheating_incidents, p.session, p.fusion_score,
                              [keystroke_score |-> p.k_score, mouse_score |-> p.m_score,
                               threshold |-> p.personalized_threshold,
                               exceeded_by |-> p.fusion_score - p.personalized_threshold],
                              insert_outcome)} :
                /\ cheating_incidents' = saved.incidents
                /\ polls' = [polls EXCEPT ![w].pc = "logged",
                                          ![w].incident_logged = saved.ret]
                /\ poll_log' = IF insert_outcome = "ok"
                               THEN [poll_log EXCEPT !.logged[p.session] = @ + 1]
                               ELSE poll_log
       ELSE /\ polls' = [polls EXCEPT ![w].pc = "logged"]
            /\ UNCHANGED << cheating_incidents, poll_log >>
    /\ UNCHANGED << personal_thresholds, calibration_sessions, db_clock,
                    keystroke_model, mouse_model, resp, obs, calibrated,
                    SESSION_FEATURE_HISTORY, call >>

\* Steps 7 and 8 on worker w: the count query and the answer
PollRespond(w) ==
    /\ polls[w].pc = "logged"
    /\ LET p == polls[w] IN
       \E count_outcome \in StoreOutcomes :
            /\ polls' = [polls EXCEPT
                   ![w].pc = "done",
                   ![w].count_outcome = count_outcome,
                   ![w].logged_before = poll_log.completed[p.session],
                   ![w].cheating_incident_count =
                       CountIncidents(cheating_incidents, p.session, count_outcome)]
            /\ poll_log' = IF p.incident_logged
                           THEN [poll_log EXCEPT !.completed[p.session] = @ + 1]
                           ELSE poll_log
    /\ UNCHANGED << personal_thresholds, calibration_sessions, cheating_incidents,
                    db_clock, keystroke_model, mouse_model, resp, obs, calibrated,
                    SESSION_FEATURE_HISTORY, call >>

InitPolls ==
    /\ CalibratedOnce
    /\ SESSION_FEATURE_HISTORY = EmptyFeatureHistory
    /\ polls = [w \in Workers |-> IdlePoll]
    /\ poll_log = NoPollLog
    /\ call = NoCall

NextPolls ==
    \/ \E w \in Workers : PollReceive(w)
    \/ \E w \in Workers : PollLogIncident(w)
    \/ \E w \in Workers : PollRespond(w)

SpecPolls == InitPolls /\ [][NextPolls]_vars

(***************************************************************************)
(* The feature extractors and stable_z_score as functions of their         *)
(* arguments.  Raw feature values and baseline means are plain numbers, a  *)
(* baseline std is in thousandths as stored, and a normalized value is the *)
(* fraction num/den that the code's division computes; a raw value v is    *)
(* v/1.  stable_z_score takes its std and epsilon in millionths.           *)
(***************************************************************************)
EPSILON == 1
MAX_Z_SCORE_CLIP == 10

Rat(n, d) == [num |-> n, den |-> d]
RawVector(vec) == [i \in 1..Len(vec) |-> Rat(vec[i], 1)]
IsZeroRat(z) == z.num = 0
AbsAtMost(z, bound) == Abs(z.num) <= bound * Abs(z.den)
AllZero(vec) == \A i \in 1..Len(vec) : IsZeroRat(vec[i])

\* (measurement - mean) / (std + epsilon); a zero divisor raises
\* ZeroDivisionError on Python floats and gives inf or nan on numpy floats
stable_z_score(measurement, mean, std) ==
    IF std + EPSILON = 0
    THEN {[kind |-> "ZeroDivisionError", z |-> Rat(0, 1)],
          [kind |-> "nonfinite", z |-> Rat(0, 1)]}
    ELSE {[kind |-> "value",
           z |-> Rat((measurement - mean) * 1000000, std + EPSILON)]}

\* baseline_stats=None, and a baseline_stats dict
NoStats == [given |-> FALSE, stats |-> << >>]
Given(stats) == [given |-> TRUE, stats |-> stats]
DefaultStats == [mean |-> 0, std |-> 1000]
StatsFor(baseline_stats, name) ==
    IF name \in DOMAIN baseline_stats.stats
    THEN baseline_stats.stats[name] ELSE DefaultStats

Returned(vec, stats) == [ok |-> TRUE, error |-> "", vec |-> vec, stats |-> stats]
Raised(error) == [ok |-> FALSE, error |-> error, vec |-> << >>, stats |-> "None"]

\* variant: the early return for fewer than two events is missing
KeystrokeExtractWithoutFloor(events, baseline_stats) ==
    LET raw == KeystrokeExtractRaw(events) IN
    IF ~raw.ok THEN Raised("KeyError")
    ELSE IF ~baseline_stats.given
    THEN Returned(RawVector(raw.vec), "simplified_stats")
    ELSE Returned([i \in 1..Len(KEYSTROKE_FEATURES) |->
                      LET stats == StatsFor(baseline_stats, KEYSTROKE_FEATURES[i])
                      IN  Rat((raw.vec[i] - stats.mean) * 1000000,
                              1000 * stats.std + EPSILON)],
                  "None")

\* KeystrokeFeatureExtractor.extract_features(events, baseline_stats)
KeystrokeExtract(events, baseline_stats) ==
    IF Len(events) < 2
    THEN Returned(RawVector(ZeroVector(Len(KEYSTROKE_FEATURES))), "simplified_stats")
    ELSE
    LET raw == KeystrokeCalculate(events) IN
    IF ~raw.ok THEN Raised("KeyError")
    ELSE IF ~baseline_stats.given
    THEN Returned(RawVector(raw.vec), "simplified_stats")
    ELSE
    LET scored == [i \in 1..Len(KEYSTROKE_FEATURES) |->
                      LET stats == StatsFor(baseline_stats, KEYSTROKE_FEATURES[i])
                      IN  CHOOSE r \in stable_z_score(raw.vec[i], stats.mean,
                                                      1000 * stats.std) : TRUE]
    IN  IF \E i \in 1..Len(scored) : scored[i].kind # "value"
        THEN Raised("ZeroDivisionError")
        ELSE Returned([i \in 1..Len(scored) |-> scored[i].z], "None")

\* MouseFeatureExtractor.extract_features(events, baseline_stats)
MouseExtract(events, baseline_stats) ==
    LET raw == MouseCalculate(events) IN
    IF ~raw.ok THEN Raised("KeyError")
    ELSE IF ~baseline_stats.given
    THEN Returned(RawVector(raw.vec), "stats")
    ELSE Returned([i \in 1..Len(MOUSE_FEATURES) |->
                      LET stats == StatsFor(baseline_stats, MOUSE_FEATURES[i])
                      IN  IF stats.std > 0
                          THEN Rat((raw.vec[i] - stats.mean) * 1000000,
                                   1000 * stats.std)
                          ELSE Rat(0, 1)],
                  "None")

\* the arguments the functions are applied to
MouseOneCopy == << [event_type |-> "copy", timestamp |-> 0] >>
ExtractKeyEvents == ExamKeyEvents
\* one copy and one paste, named in the field type
MouseTypeCopyPaste ==
    << [type |-> "copy", timestamp |-> 0], [type |-> "paste", timestamp |-> 10] >>
ExtractMouseEvents == ExamMouseEvents \cup {MouseOneCopy, MouseTypeCopyPaste}

BaselineNames == {"None", "calibrated", "flat", "partial"}
FlatStats(names) ==
    [n \in {names[i] : i \in 1..Len(names)} |-> [mean |-> 0, std |-> 0]]
Without(stats, name) == [n \in DOMAIN stats \ {name} |-> stats[n]]

KeystrokeBaselines ==
    [b \in BaselineNames |->
        CASE b = "None" -> NoStats
          [] b = "calibrated" ->
                Given(DetailedStats(KEYSTROKE_FEATURES,
                                    KeystrokeFeatures[KeysTyping].vec))
          [] b = "flat" -> Given(FlatStats(KEYSTROKE_FEATURES))
          [] b = "partial" ->
                Given(Without(DetailedStats(KEYSTROKE_FEATURES,
                                            KeystrokeFeatures[KeysTyping].vec),
                              "mean_dd_key1_key2"))]
MouseBaselines ==
    [b \in BaselineNames |->
        CASE b = "None" -> NoStats
          [] b = "calibrated" ->
                Given(DetailedStats(MOUSE_FEATURES, MouseFeatures[MouseCopyPaste].vec))
          [] b = "flat" -> Given(FlatStats(MOUSE_FEATURES))
          [] b = "partial" ->
                Given(Without(DetailedStats(MOUSE_FEATURES,
                                            MouseFeatures[MouseCopyPaste].vec),
                              "inactive_duration"))]

\* two keys one after the other; two keys overlapping, released in the order
\* pressed; two keys overlapping, the second released first
KeysScenario ==
    << KeyDown("a", 0), KeyUp("a", 10), KeyDown("b", 30), KeyUp("b", 40) >>
KeysOverlap ==
    << KeyDown("a", 0), KeyDown("b", 5), KeyUp("a", 10), KeyUp("b", 15) >>
KeysRollover ==
    << KeyDown("a", 0), KeyDown("b", 5), KeyUp("b", 8), KeyUp("a", 20) >>
HoldTimeEvents == {KeysTyping, KeysFirm, KeysScenario, KeysOverlap, KeysRollover}

\* the tab is hidden from 0.0 to 0.6
MouseTabs ==
    << [event_type |-> "move", timestamp |-> 0, tab |-> "active"],
       [event_type |-> "copy", timestamp |-> 60, tab |-> "hidden"],
       [event_type |-> "move", timestamp |-> 70, tab |-> "active"] >>

\* the lists that hold the elements of events in another order
Reorderings(events) ==
    {[i \in 1..Len(events) |-> events[p[i]]] :
        p \in {q \in [1..Len(events) -> 1..Len(events)] :
                  \A i, j \in 1..Len(events) : q[i] = q[j] => i = j}}

Measurements == {0, 1, 25}
Means == {0, 1}
Stds == {0 - EPSILON, 0, EPSILON, 1000000}

NoResult == Raised("pending")
PendingCall(fn, events, baseline, measurement, mean, std) ==
    [fn |-> fn, events |-> events, baseline |-> baseline,
     measurement |-> measurement, mean |-> mean, std |-> std,
     returned |-> FALSE, kind |-> "", result |-> NoResult, keystroke_count |-> 0,
     reordered |-> << >>, reordered_result |-> NoResult]

ExtractCalls ==
    {PendingCall("keystroke_extract_features", e, b, 0, 0, 0) :
        e \in ExtractKeyEvents, b \in BaselineNames}
    \cup {PendingCall("mouse_extract_features", e, b, 0, 0, 0) :
            e \in ExtractMouseEvents, b \in BaselineNames}
    \cup {PendingCall("stable_z_score", << >>, "None", m, mu, sd) :
            m \in Measurements, mu \in Means, sd \in Stds}
    \cup {PendingCall("hold_times", e, "None", 0, 0, 0) : e \in HoldTimeEvents}
    \cup {[PendingCall("keystroke_reordered", KeysScenario, "None", 0, 0, 0)
              EXCEPT !.reordered = r] : r \in Reorderings(KeysScenario)}
    \cup {[PendingCall("mouse_reordered", MouseTabs, "None", 0, 0, 0)
              EXCEPT !.reordered = r] : r \in Reorderings(MouseTabs)}

CallKeystrokeExtract ==
    /\ call.fn = "keystroke_extract_features" /\ ~call.returned
    /\ \E r \in {KeystrokeExtract(call.events, KeystrokeBaselines[call.baseline])} :
          call' = [call EXCEPT !.returned = TRUE, !.result = r,
                               !.kind = IF r.ok THEN "value" ELSE r.error]
    /\ UNCHANGED << personal_thresholds, calibration_sessions, cheating_incidents,
                    db_clock, keystroke_model, mouse_model, resp, obs, calibrated,
                    SESSION_FEATURE_HISTORY, polls, poll_log >>

CallMouseExtract ==
    /\ call.fn = "mouse_extract_features" /\ ~call.returned
    /\ \E r \in {MouseExtract(call.events, MouseBaselines[call.baseline])} :
          call' = [call EXCEPT !.returned = TRUE, !.result = r,
                               !.kind = IF r.ok THEN "value" ELSE r.error]
    /\ UNCHANGED << personal_thresholds, calibration_sessions, cheating_incidents,
                    db_clock, keystroke_model, mouse_model, resp, obs, calibrated,
                    SESSION_FEATURE_HISTORY, polls, poll_log >>

CallStableZScore ==
    /\ call.fn = "stable_z_score" /\ ~call.returned
    /\ \E r \in stable_z_score(call.measurement, call.mean, call.std) :
          call' = [call EXCEPT
                     !.returned = TRUE, !.kind = r.kind,
                     !.result = IF r.kind = "value"
                                THEN Returned(<< r.z >>, "None")
                                ELSE Raised(r.kind)]
    /\ UNCHANGED << personal_thresholds, calibration_sessions, cheating_incidents,
                    db_clock, keystroke_model, mouse_model, resp, obs, calibrated,
                    SESSION_FEATURE_HISTORY, polls, poll_log >>

\* _calculate_features up to hold_times, and its keystroke_count
CallHoldTimes ==
    /\ call.fn = "hold_times" /\ ~call.returned
    /\ LET df == SortByTimestamp(call.events)
           presses == SelectType(df, "keydown")
           releases == SelectType(df, "keyup")
       IN  call' = [call EXCEPT
                      !.returned = TRUE, !.kind = "value",
                      !.result = Returned(RawVector(HoldTimes(presses, releases)),
                                          "None"),
                      !.keystroke_count =
                          KeystrokeCalculate(call.events).vec[Len(KEYSTROKE_FEATURES)]]
    /\ UNCHANGED << personal_thresholds, calibration_sessions, cheating_incidents,
                    db_clock, keystroke_model, mouse_model, resp, obs, calibrated,
                    SESSION_FEATURE_HISTORY, polls, poll_log >>

\* extract_features on a list and on the same events in another order
CallReordered ==
    /\ call.fn \in {"keystroke_reordered", "mouse_reordered"} /\ ~call.returned
    /\ call' = [call EXCEPT
                  !.returned = TRUE, !.kind = "value",
                  !.result = IF call.fn = "keystroke_reordered"
                             THEN KeystrokeExtract(call.events, NoStats)
                             ELSE MouseExtract(call.events, NoStats),
                  !.reordered_result = IF call.fn = "keystroke_reordered"
                                       THEN KeystrokeExtract(call.reordered, NoStats)
                                       ELSE MouseExtract(call.reordered, NoStats)]
    /\ UNCHANGED << personal_thresholds, calibration_sessions, cheating_incidents,
                    db_clock, keystroke_model, mouse_model, resp, obs, calibrated,
                    SESSION_FEATURE_HISTORY, polls, poll_log >>

InitExtract ==
    /\ personal_thresholds = << >>
    /\ calibration_sessions = [id \in CalibrationSessionIds |-> "absent"]
    /\ cheating_incidents = << >>
    /\ db_clock = 0
    /\ keystroke_model = "xgboost_pipeline"
    /\ mouse_model = "svm_model"
    /\ resp = NoResponse
    /\ obs = NoObs
    /\ calibrated = [s \in CalibratingStudents |->
                        [done |-> FALSE, threshold |-> 0, stats |-> << >>,
                         stray |-> FALSE]]
    /\ SESSION_FEATURE_HISTORY = EmptyFeatureHistory
    /\ polls = [w \in Workers |-> IdlePoll]
    /\ poll_log = NoPollLog
    /\ call \in ExtractCalls

NextExtract ==
    \/ CallKeystrokeExtract
    \/ CallMouseExtract
    \/ CallStableZScore
    \/ CallHoldTimes
    \/ CallReordered

SpecExtract == InitExtract /\ [][NextExtract]_vars

(***************************************************************************)
(* Exam polls against a stored baseline.  The baseline_stats column is     *)
(* JSON text in the store; analyze_behavior guards against a package       *)
(* without detailed_stats, so the stored package is an input: the one      *)
(* save_baseline wrote, one without the entry of a keystroke feature, one  *)
(* without the entry of a mouse feature, one without detailed_stats.       *)
(***************************************************************************)
StoredPackages ==
    {CalibratedBaseline.package,
     [CalibratedBaseline.package EXCEPT
        !.keystroke.detailed_stats = Without(@, "mean_dd_key1_key2")],
     [CalibratedBaseline.package EXCEPT
        !.mouse.detailed_stats = Without(@, "paste")],
     [CalibratedBaseline.package EXCEPT
        !.keystroke = [needs_normalization |-> FALSE]]}

StoredBaselineRows ==
    {<< [CalibratedStore.rows[1] EXCEPT !.baseline_stats = JsonDumps(package)] >> :
        package \in StoredPackages}

InitStoredBaseline ==
    /\ personal_thresholds \in StoredBaselineRows
    /\ calibration_sessions = CalibratedStore.sessions
    /\ db_clock = CalibratedStore.clock
    /\ cheating_incidents = << >>
    /\ keystroke_model \in {"None", "xgboost_pipeline"}
    /\ mouse_model \in {"None", "svm_model"}
    /\ resp = NoResponse
    /\ obs = NoObs
    /\ calibrated = [s \in CalibratingStudents |->
                        [done |-> TRUE, threshold |-> CalibratedBaseline.threshold,
                         stats |-> CalibratedBaseline.package, stray |-> FALSE]]
    /\ SESSION_FEATURE_HISTORY = EmptyFeatureHistory
    /\ polls = [w \in Workers |-> IdlePoll]
    /\ poll_log = NoPollLog
    /\ call = NoCall

NextStoredBaseline == AnalyzeBehavior

SpecStoredBaseline == InitStoredBaseline /\ [][NextStoredBaseline]_vars

(***************************************************************************)
(* exam-proctoring-backend/app.py, compute_threshold: the moment-based     *)
(* threshold of a calibration session.  The classifiers are opaque, so the *)
(* request's input is, per question, the prediction of each modality in    *)
(* thousandths, or NoPrediction when the metric is missing, its features   *)
(* sum to 0.001 or less, or the prediction raised.  Weights and the factor *)
(* of the standard deviation are in hundredths.                            *)
(***************************************************************************)
MOUSE_WEIGHT == 45
KEYSTROKE_WEIGHT == 55
ADAPTIVE_STD_FACTOR == 125
ADAPTIVE_THRESHOLD_MAX == 850
ADAPTIVE_THRESHOLD_MIN == 350
DEFAULT_THRESHOLD == 550

NoPrediction == 0 - 1
Predictions == {NoPrediction, 200, 900}
QuestionIndexes == {0, 1}
MetricsByQuestion ==
    UNION {[qs -> [mouse : Predictions, keystroke : Predictions]] :
              qs \in SUBSET QuestionIndexes}

\* the fused score of one question, NoPrediction when the pair is skipped
FusedScore(p_mouse, p_keystroke) ==
    IF p_mouse # NoPrediction /\ p_keystroke # NoPrediction
    THEN (MOUSE_WEIGHT * p_mouse + KEYSTROKE_WEIGHT * p_keystroke) \div 100
    ELSE IF p_mouse # NoPrediction THEN p_mouse
    ELSE p_keystroke

RECURSIVE FusionScores(_, _)
FusionScores(metrics_by_question, q_indexes) ==
    IF q_indexes = {} THEN << >>
    ELSE LET q_idx == CHOOSE q \in q_indexes : \A r \in q_indexes : q <= r
             fusion == FusedScore(metrics_by_question[q_idx].mouse,
                                  metrics_by_question[q_idx].keystroke)
             rest == FusionScores(metrics_by_question, q_indexes \ {q_idx})
         IN  IF fusion = NoPrediction THEN rest ELSE << fusion >> \o rest

\* variant: the floor is missing
AdaptiveThresholdWithoutFloor(fusion_mean, fusion_std) ==
    Min2(fusion_mean + (ADAPTIVE_STD_FACTOR * fusion_std) \div 100,
         ADAPTIVE_THRESHOLD_MAX)

\* mean + 1.25 * std, capped at 0.85, then floored at 0.35
AdaptiveThreshold(fusion_mean, fusion_std) ==
    Max2(Min2(fusion_mean + (ADAPTIVE_STD_FACTOR * fusion_std) \div 100,
              ADAPTIVE_THRESHOLD_MAX),
         ADAPTIVE_THRESHOLD_MIN)

ComputeThreshold ==
    /\ Len(personal_thresholds) < MaxThresholdRows
    /\ UNCHANGED << calibration_sessions, cheating_incidents, db_clock,
                    keystroke_model, mouse_model, obs, calibrated,
                    SESSION_FEATURE_HISTORY, polls, poll_log, call >>
    /\ \E student_id \in CalibratingStudents \cup {NoId},
          session_id \in CalibrationSessionIds \cup {NoId} :
       IF student_id = NoId \/ session_id = NoId
       THEN /\ resp' = ErrorResponse("compute_threshold", 400,
                                     "Missing student_id or calibration_session_id")
            /\ UNCHANGED personal_thresholds
       ELSE \E select_outcome \in StoreOutcomes, insert_outcome \in StoreOutcomes,
               metrics_by_question \in MetricsByQuestion :
            \E fusion_scores \in {FusionScores(metrics_by_question,
                                               DOMAIN metrics_by_question)} :
            IF select_outcome # "ok"
            THEN /\ resp' = ErrorResponse("compute_threshold", 500, "exception")
                 /\ UNCHANGED personal_thresholds
            ELSE IF DOMAIN metrics_by_question = {}
            THEN /\ resp' = ErrorResponse("compute_threshold", 404,
                                          "No calibration metrics found")
                 /\ UNCHANGED personal_thresholds
            ELSE IF Len(fusion_scores) = 0
            THEN /\ resp' = ErrorResponse("compute_threshold", 400,
                                          "Could not compute any valid predictions")
                 /\ UNCHANGED personal_thresholds
            ELSE
            LET fusion_mean == MeanOrZero(fusion_scores)
                fusion_std == StdOrZero(fusion_scores)
                adaptive_threshold == AdaptiveThreshold(fusion_mean, fusion_std)
            IN  IF insert_outcome # "ok"
                THEN /\ resp' = ErrorResponse("compute_threshold", 500, "exception")
                     /\ UNCHANGED personal_thresholds
                ELSE /\ personal_thresholds' =
                            Append(personal_thresholds,
                                   [student_id |-> student_id,
                                    calibration_session_id |-> session_id,
                                    fusion_mean |-> fusion_mean,
                                    fusion_std |-> fusion_std,
                                    threshold |-> adaptive_threshold])
                     /\ resp' = [NoResponse EXCEPT
                                   !.op = "compute_threshold", !.code = 200,
                                   !.status = "success",
                                   !.personalized_threshold = adaptive_threshold,
                                   !.samples_processed = Len(fusion_scores)]

InitThreshold ==
    /\ personal_thresholds = << >>
    /\ calibration_sessions = [id \in CalibrationSessionIds |-> "in_progress"]
    /\ cheating_incidents = << >>
    /\ db_clock = 0
    /\ keystroke_model = "xgboost_pipeline"
    /\ mouse_model = "svm_model"
    /\ resp = NoResponse
    /\ obs = NoObs
    /\ calibrated = [s \in CalibratingStudents |->
                        [done |-> FALSE, threshold |-> 0, stats |-> << >>,
                         stray |-> FALSE]]
    /\ SESSION_FEATURE_HISTORY = EmptyFeatureHistory
    /\ polls = [w \in Workers |-> IdlePoll]
    /\ poll_log = NoPollLog
    /\ call = NoCall

NextThreshold == ComputeThreshold

SpecThreshold == InitThreshold /\ [][NextThreshold]_vars

(***************************************************************************)
(* The score arithmetic of the two routes as functions of the modality     *)
(* scores, in thousandths.                                                 *)
(***************************************************************************)
ModalityScores == {0, 1, 200, 500, 850, 1000}

NoScores == [k |-> 0, m |-> 0]
PendingFusion(k_score, m_score, boost) ==
    [fn |-> "fusion_score", k_score |-> k_score, m_score |-> m_score,
     boost |-> boost, k_model |-> "None", m_model |-> "None",
     key_events |-> << >>, mouse_events |-> << >>,
     returned |-> FALSE, fusion_score |-> 0, unboosted |-> 0,
     calibration |-> NoScores, exam |-> NoScores]

\* one raw feature vector per modality and the two model references, scored
\* by save_baseline and by analyze_behavior
PendingModalityScores(k_model, m_model, key_events, mouse_events) ==
    [PendingFusion(0, 0, FALSE) EXCEPT
       !.fn = "modality_scores", !.k_model = k_model, !.m_model = m_model,
       !.key_events = key_events, !.mouse_events = mouse_events]

ScoreCalls ==
    {PendingFusion(k, m, b) : k \in ModalityScores, m \in ModalityScores, b \in BOOLEAN}
    \cup {PendingModalityScores(km, mm, ke, me) :
            km \in {"None", "xgboost_pipeline"}, mm \in {"None", "svm_model"},
            ke \in PollKeyEvents, me \in PollMouseEvents}

\* steps 2 to 5 of save_baseline and step 4 of analyze_behavior on the same
\* raw vectors
CallModalityScores ==
    /\ call.fn = "modality_scores" /\ ~call.returned
    /\ LET k_raw == KeystrokeFeatures[call.key_events].vec
           m_raw == MouseFeatures[call.mouse_events].vec
           saved == BaselineToSave(k_raw, m_raw, call.k_model, call.m_model)
       IN  call' = [call EXCEPT
                      !.returned = TRUE,
                      !.calibration = [k |-> saved.scores.k, m |-> saved.scores.m],
                      !.exam = [k |-> ExamKeystrokeScore(call.k_model,
                                                         Thousandths(k_raw)).score,
                                m |-> ExamMouseScore(call.m_model,
                                                     Thousandths(m_raw)).score]]
    /\ UNCHANGED << personal_thresholds, calibration_sessions, cheating_incidents,
                    db_clock, keystroke_model, mouse_model, resp, obs, calibrated,
                    SESSION_FEATURE_HISTORY, polls, poll_log >>

\* step 5 of analyze_behavior, with and without the boost
CallFusionScore ==
    /\ call.fn = "fusion_score" /\ ~call.returned
    /\ call' = [call EXCEPT
                  !.returned = TRUE,
                  !.fusion_score = FusionScore(call.k_score, call.m_score, call.boost),
                  !.unboosted = FusionScore(call.k_score, call.m_score, FALSE)]
    /\ UNCHANGED << personal_thresholds, calibration_sessions, cheating_incidents,
                    db_clock, keystroke_model, mouse_model, resp, obs, calibrated,
                    SESSION_FEATURE_HISTORY, polls, poll_log >>

InitScores ==
    /\ personal_thresholds = << >>
    /\ calibration_sessions = [id \in CalibrationSessionIds |-> "absent"]
    /\ cheating_incidents = << >>
    /\ db_clock = 0
    /\ keystroke_model = "xgboost_pipeline"
    /\ mouse_model = "svm_model"
    /\ resp = NoResponse
    /\ obs = NoObs
    /\ calibrated = [s \in CalibratingStudents |->
                        [done |-> FALSE, threshold |-> 0, stats |-> << >>,
                         stray |-> FALSE]]
    /\ SESSION_FEATURE_HISTORY = EmptyFeatureHistory
    /\ polls = [w \in Workers |-> IdlePoll]
    /\ poll_log = NoPollLog
    /\ call \in ScoreCalls

NextScores == CallFusionScore \/ CallModalityScores

SpecScores == InitScores /\ [][NextScores]_vars

(***************************************************************************)
(* Application start, app.py.  The route modules are imported first; their *)
(* "from utils.load_models import mouse_model, keystroke_model" binds the  *)
(* names keystroke_model and mouse_model of the route modules to the       *)
(* values the names of load_models hold at that moment, None.  init_models *)
(* then rebinds the names of load_models (global statement); it raises     *)
(* when a model file is missing and the application does not start.        *)
(* call holds the position of the start-up and the names of load_models.   *)
(***************************************************************************)
RoutesImported ==
    [fn |-> "startup", pc |-> "routes_imported",
     load_models |-> [keystroke_model |-> "None", mouse_model |-> "None"]]

init_models ==
    /\ call.fn = "startup" /\ call.pc = "routes_imported"
    /\ \E files_exist \in BOOLEAN :
          call' = IF files_exist
                  THEN [call EXCEPT
                          !.pc = "serving",
                          !.load_models = [keystroke_model |-> "xgboost_pipeline",
                                           mouse_model |-> "svm_model"]]
                  ELSE [call EXCEPT !.pc = "failed"]
    /\ UNCHANGED << personal_thresholds, calibration_sessions, cheating_incidents,
                    db_clock, keystroke_model, mouse_model, resp, obs, calibrated,
                    SESSION_FEATURE_HISTORY, polls, poll_log >>

\* the registered routes, once the application runs
Serve ==
    /\ call.fn = "startup" /\ call.pc = "serving"
    /\ (CreateCalibrationSession \/ SaveBaseline \/ AnalyzeBehavior)

InitStartup ==
    /\ personal_thresholds = << >>
    /\ calibration_sessions = [id \in CalibrationSessionIds |-> "absent"]
    /\ cheating_incidents = << >>
    /\ db_clock = 0
    /\ keystroke_model = RoutesImported.load_models.keystroke_model
    /\ mouse_model = RoutesImported.load_models.mouse_model
    /\ resp = NoResponse
    /\ obs = NoObs
    /\ calibrated = [s \in CalibratingStudents |->
                        [done |-> FALSE, threshold |-> 0, stats |-> << >>,
                         stray |-> FALSE]]
    /\ SESSION_FEATURE_HISTORY = EmptyFeatureHistory
    /\ polls = [w \in Workers |-> IdlePoll]
    /\ poll_log = NoPollLog
    /\ call = RoutesImported

NextStartup == init_models \/ Serve

SpecStartup == InitStartup /\ [][NextStartup]_vars

(***************************************************************************)
(* Properties.                                                             *)
(***************************************************************************)
LastIncident == cheating_incidents[Len(cheating_incidents)]

ValidPoll == resp.op = "poll" /\ obs.student # NoId /\ obs.session # NoId

\* C1: a poll that reaches the scoring step attempts exactly one incident
\* write when its fusion score is at or above the personalized threshold and
\* none when it is below; one poll adds at most one incident row.
C1_OneWriteIffThresholdReached ==
    (resp.op = "poll" /\ obs.scored) =>
        /\ obs.incident_writes =
               IF resp.fusion_risk_score >= resp.personalized_threshold THEN 1 ELSE 0
        /\ Len(cheating_incidents) - obs.incidents_before <= obs.incident_writes
        /\ Len(cheating_incidents) - obs.incidents_before >= 0

\* the boundary: a score equal to the threshold, one write
C1_Witness ==
    /\ resp.op = "poll" /\ obs.scored
    /\ resp.fusion_risk_score = resp.personalized_threshold
    /\ obs.incident_writes = 1
    /\ Len(cheating_incidents) = obs.incidents_before + 1

\* C2: every incident row has severity high for a score of 0.8 or more,
\* medium for a score from 0.6 up to 0.8, low otherwise; the severity of the
\* response of the poll that logged it is the same; a score of 0.9 against
\* a threshold of 0.7 is logged as high.
C2_SeverityLevels ==
    /\ \A i \in 1..Len(cheating_incidents) :
           cheating_incidents[i].severity =
               IF cheating_incidents[i].severity_score >= 800 THEN "high"
               ELSE IF cheating_incidents[i].severity_score >= 600 THEN "medium"
               ELSE "low"
    /\ (resp.op = "poll" /\ resp.incident_logged) =>
           /\ LastIncident.severity_score = resp.fusion_risk_score
           /\ LastIncident.severity = resp.severity
    /\ (resp.op = "poll" /\ obs.scored /\ ~obs.incident_write_failed
           /\ resp.fusion_risk_score = 900 /\ resp.personalized_threshold = 700) =>
           /\ resp.incident_logged
           /\ LastIncident.severity = "high"

C2_Witness ==
    /\ resp.op = "poll" /\ resp.incident_logged
    /\ resp.fusion_risk_score = 900 /\ resp.personalized_threshold = 700
    /\ LastIncident.severity = "high" /\ resp.severity = "high"

\* C3: a poll with valid identifiers for a student without a PersonalThreshold
\* row answers 200 with status no_baseline, calls no classifier and adds no
\* incident row.
C3_NoBaseline ==
    (ValidPoll /\ ~obs.had_row) =>
        /\ resp.code = 200
        /\ resp.status = "no_baseline"
        /\ resp.error = ""
        /\ obs.classifier_calls = 0
        /\ ~obs.scored
        /\ Len(cheating_incidents) = obs.incidents_before

\* another student is calibrated, this one is not
C3_Witness ==
    /\ ValidPoll /\ ~obs.had_row
    /\ Len(personal_thresholds) > 0
    /\ resp.status = "no_baseline"

\* C4: a poll with valid identifiers is never answered with an error,
\* whatever its event lists hold, and, a baseline being found, its response
\* carries a score.
C4_PollNeverFails ==
    ValidPoll =>
        /\ resp.code = 200
        /\ resp.status # "error"
        /\ (resp.status # "no_baseline" => resp.has_score)

\* C5: a request that needs a score while a model reference is None fails
\* with a 5xx error; it never succeeds with a substituted score.
C5_ModelUnavailableIsFatal ==
    (resp.op \in {"poll", "save_baseline"} /\ obs.model_missing /\ obs.substituted) =>
        resp.code >= 500

\* C6: the statistics and the threshold a poll uses are those of the
\* student's row with the latest creation time; when all the student's
\* save_baseline calls that stored a row succeeded, they are those of the
\* last successful calibration.
C6_LatestBaselineUsed ==
    (resp.op = "poll" /\ resp.status \in {"analyzed", "gathering_data"}) =>
        \E i \in 1..Len(personal_thresholds) :
            /\ personal_thresholds[i].student_id = obs.student
            /\ \A j \in 1..Len(personal_thresholds) :
                   personal_thresholds[j].student_id = obs.student =>
                       personal_thresholds[j].created_at
                           <= personal_thresholds[i].created_at
            /\ obs.used_stats = personal_thresholds[i].baseline_stats.json
            /\ resp.status = "analyzed" =>
                   resp.personalized_threshold = personal_thresholds[i].threshold
            /\ ~calibrated[obs.student].stray =>
                   /\ calibrated[obs.student].done
                   /\ obs.used_stats = calibrated[obs.student].stats
                   /\ resp.status = "analyzed" =>
                          resp.personalized_threshold
                              = calibrated[obs.student].threshold

\* two calibrations with different thresholds, then a scored poll
C6_Witness ==
    /\ resp.op = "poll" /\ resp.status = "analyzed"
    /\ Len(personal_thresholds) = 2
    /\ personal_thresholds[1].student_id = personal_thresholds[2].student_id
    /\ personal_thresholds[1].threshold # personal_thresholds[2].threshold
    /\ ~calibrated[obs.student].stray
    /\ resp.personalized_threshold = personal_thresholds[2].threshold

\* C7: no step changes or removes a stored PersonalThreshold row; rows are
\* only added.
C7_ThresholdsAppendOnly ==
    [][/\ Len(personal_thresholds') >= Len(personal_thresholds)
       /\ \A i \in 1..Len(personal_thresholds) :
              personal_thresholds'[i] = personal_thresholds[i]]_vars

\* a recalibration: a second row of the same student, the first one kept
C7_Witness ==
    /\ resp.op = "save_baseline" /\ obs.saved
    /\ Len(personal_thresholds) = 2
    /\ personal_thresholds[1].student_id = personal_thresholds[2].student_id
    /\ personal_thresholds[1].baseline_stats # personal_thresholds[2].baseline_stats

\* C8: no calibration session has more than one PersonalThreshold row.
C8_OneRowPerSession ==
    \A i, j \in 1..Len(personal_thresholds) :
        personal_thresholds[i].calibration_session_id
            = personal_thresholds[j].calibration_session_id => i = j

C10_IncidentWriteFailureTolerated ==
    (resp.op = "poll" /\ obs.incident_write_failed) =>
        /\ resp.code = 200
        /\ resp.status = "analyzed"
        /\ resp.has_score
        /\ resp.fusion_risk_score >= resp.personalized_threshold
        /\ resp.threshold_exceeded
        /\ ~resp.incident_logged
        /\ Len(cheating_incidents) = obs.incidents_before

C10_Witness ==
    /\ resp.op = "poll" /\ obs.incident_write_failed
    /\ resp.status = "analyzed"
    /\ resp.fusion_risk_score = 900
    /\ ~resp.incident_logged


\* C13: after a scoring poll for an exam session, SESSION_FEATURE_HISTORY has
\* an entry for that session that holds at least one feature vector (one
\* per scoring poll made for the session).
C13_HistoryGrowsWithPolls ==
    (resp.op = "poll" /\ resp.status \in {"analyzed", "gathering_data"}) =>
        /\ obs.session \in DOMAIN SESSION_FEATURE_HISTORY
        /\ Len(SESSION_FEATURE_HISTORY[obs.session]) >= 1


\* the incident rows of one exam session, in insertion order
RowsOfSession(incidents, session_id) ==
    SelectSeq(incidents, LAMBDA r : r.session_id = session_id)

OwnLogged(p) == IF p.incident_logged THEN 1 ELSE 0

\* C11 as stated: the count an analyzed poll returns is at least the number
\* of incidents logged for its session by itself and by the polls that
\* answered before it, so at least 1 when it logged one.
C11_CountCoversLoggedIncidents ==
    \A w \in Workers :
        polls[w].pc = "done" =>
            /\ polls[w].cheating_incident_count
                   >= polls[w].logged_before + OwnLogged(polls[w])
            /\ polls[w].incident_logged => polls[w].cheating_incident_count >= 1

\* C11 amended: when the count query succeeds the count is at least the
\* number of incidents logged for the session by this poll and by the polls
\* that answered before it, and at most the number logged for the session;
\* when the count query fails the count is 0.
C11_CountWhenQuerySucceeds ==
    \A w \in Workers :
        polls[w].pc = "done" =>
            IF polls[w].count_outcome = "ok"
            THEN /\ polls[w].cheating_incident_count
                        >= polls[w].logged_before + OwnLogged(polls[w])
                 /\ polls[w].incident_logged =>
                        polls[w].cheating_incident_count >= 1
                 /\ polls[w].cheating_incident_count
                        <= poll_log.logged[polls[w].session]
            ELSE polls[w].cheating_incident_count = 0

\* a poll that logged an incident after another poll of the session had
\* logged one and answered
C11_Witness ==
    \E w \in Workers :
        /\ polls[w].pc = "done" /\ polls[w].count_outcome = "ok"
        /\ polls[w].incident_logged
        /\ polls[w].logged_before = 1
        /\ polls[w].cheating_incident_count = 2

\* C12: a step of a poll for one exam session leaves the incident rows of
\* every other session and the state of every other poll as they are; the
\* rows of a session are those its own polls inserted, and the count a poll
\* returns is the number of rows of its own session.
C12_SessionsIsolated ==
    [][\A w \in Workers :
          polls'[w] # polls[w] =>
              /\ \A v \in Workers \ {w} : polls'[v] = polls[v]
              /\ \A s \in PollSessionIds \ {polls'[w].session} :
                     /\ RowsOfSession(cheating_incidents', s)
                            = RowsOfSession(cheating_incidents, s)
                     /\ poll_log'.logged[s] = poll_log.logged[s]
              /\ Len(RowsOfSession(cheating_incidents', polls'[w].session))
                     = poll_log'.logged[polls'[w].session]
              /\ (polls'[w].pc = "done" /\ polls'[w].count_outcome = "ok") =>
                     polls'[w].cheating_incident_count
                         = poll_log'.logged[polls'[w].session]]_vars

\* two polls for different sessions, interleaved, each with one incident
C12_Witness ==
    /\ polls["w1"].pc = "done" /\ polls["w2"].pc = "done"
    /\ polls["w1"].session # polls["w2"].session
    /\ polls["w1"].incident_logged /\ polls["w2"].incident_logged
    /\ polls["w1"].cheating_incident_count = 1
    /\ polls["w2"].cheating_incident_count = 1
    /\ Len(cheating_incidents) = 2


\* C14: every element of a vector that an extractor returns in exam mode
\* (a baseline supplied) lies in [-MAX_Z_SCORE_CLIP, MAX_Z_SCORE_CLIP].
C14_ExamVectorClipped ==
    (/\ call.fn \in {"keystroke_extract_features", "mouse_extract_features"}
     /\ call.returned /\ call.result.ok /\ call.baseline # "None") =>
        \A i \in 1..Len(call.result.vec) :
            AbsAtMost(call.result.vec[i], MAX_Z_SCORE_CLIP)

\* C15: stable_z_score returns a finite value and divides by no zero for
\* every measurement, mean and std, std = 0 and std = -epsilon included.
C15_StableZScoreFinite ==
    (call.fn = "stable_z_score" /\ call.returned) =>
        /\ call.kind = "value"
        /\ call.result.vec[1].den # 0
        /\ call.std = 0 =>
               call.result.vec[1] = Rat((call.measurement - call.mean) * 1000000, EPSILON)

\* C16: KeystrokeFeatureExtractor.extract_features returns the all-zero
\* vector of 11 elements for fewer than two events, with and without a
\* baseline.
C16_KeystrokeFloor ==
    (/\ call.fn = "keystroke_extract_features" /\ call.returned
     /\ Len(call.events) < 2) =>
        /\ call.result.ok
        /\ Len(call.result.vec) = 11
        /\ AllZero(call.result.vec)

\* one event, a baseline with non-zero means supplied
C16_Witness ==
    /\ call.fn = "keystroke_extract_features" /\ call.returned
    /\ Len(call.events) = 1 /\ call.baseline = "calibrated"
    /\ call.result.ok /\ AllZero(call.result.vec)

\* C17: MouseFeatureExtractor.extract_features returns the all-zero vector
\* of 4 elements for fewer than two events, with and without a baseline.
C17_MouseFloor ==
    (/\ call.fn = "mouse_extract_features" /\ call.returned
     /\ Len(call.events) < 2) =>
        /\ call.result.ok
        /\ Len(call.result.vec) = 4
        /\ AllZero(call.result.vec)

\* C18: with a baseline supplied, KeystrokeFeatureExtractor.extract_features
\* returns (vector, None) for every event list, and each element of the
\* vector is (raw - mean) / (std + epsilon) for the raw feature value and
\* the baseline entry of its feature name.
C18_ExamModeReturnsVectorAndNone ==
    (/\ call.fn = "keystroke_extract_features" /\ call.returned
     /\ call.baseline # "None") =>
        /\ call.result.ok
        /\ call.result.stats = "None"
        /\ KeystrokeFeatures[call.events].ok
        /\ \A i \in 1..Len(KEYSTROKE_FEATURES) :
              LET stats == StatsFor(KeystrokeBaselines[call.baseline],
                                    KEYSTROKE_FEATURES[i])
              IN  call.result.vec[i]
                    = Rat((KeystrokeFeatures[call.events].vec[i] - stats.mean) * 1000000,
                          1000 * stats.std + EPSILON)


\* C19: a poll that reaches the deviation step with a stored baseline that
\* lacks the entry of some feature name is analyzed as if the entry were
\* {mean 0, std 1}; it is not answered with an error.
C19_MissingEntryDefaults ==
    (resp.op = "poll" /\ obs.missing_entry) =>
        /\ resp.code = 200
        /\ resp.status = "analyzed"


\* C20: the threshold of every row that compute_threshold persists is
\* fusion_mean + 1.25 * fusion_std clamped to [0.35, 0.85]; the answer
\* carries the threshold of the row it wrote.
C20_MomentThresholdClamped ==
    /\ \A i \in 1..Len(personal_thresholds) :
          LET row == personal_thresholds[i]
              moment == row.fusion_mean + (125 * row.fusion_std) \div 100
          IN  /\ row.threshold = IF moment < 350 THEN 350
                                 ELSE IF moment > 850 THEN 850 ELSE moment
              /\ row.threshold >= 350 /\ row.threshold <= 850
    /\ (resp.op = "compute_threshold" /\ resp.code = 200) =>
          /\ Len(personal_thresholds) > 0
          /\ personal_thresholds[Len(personal_thresholds)].threshold
                 = resp.personalized_threshold

\* rows in which the floor, the cap and neither is active
C20_Witness ==
    /\ resp.op = "compute_threshold" /\ resp.code = 200
    /\ \E i \in 1..Len(personal_thresholds) :
          LET row == personal_thresholds[i] IN
          /\ row.fusion_mean + (125 * row.fusion_std) \div 100 < 350
          /\ row.threshold = 350
    /\ \E i \in 1..Len(personal_thresholds) :
          LET row == personal_thresholds[i] IN
          /\ row.fusion_mean + (125 * row.fusion_std) \div 100 > 850
          /\ row.threshold = 850


\* C21: a threshold derived from fewer than 5 calibration samples is the
\* fixed fallback constant, not a value estimated from the samples.
C21_TooFewSamplesFallBack ==
    (/\ resp.op = "compute_threshold" /\ resp.code = 200
     /\ resp.samples_processed < 5) =>
        resp.personalized_threshold = DEFAULT_THRESHOLD


\* C22: the fusion score is half the sum of the two modality scores,
\* multiplied by 1.2 and capped at 1.0 when the boost applies; for scores in
\* [0, 1] it lies in [0, 1], it is 0 for two scores of 0 and 1 for two
\* scores of 1 with and without the boost, and the boost never lowers it.
C22_FusionScoreRange ==
    (call.fn = "fusion_score" /\ call.returned) =>
        /\ 2 * call.unboosted <= call.k_score + call.m_score
        /\ call.k_score + call.m_score < 2 * call.unboosted + 2
        /\ call.fusion_score >= 0 /\ call.fusion_score <= 1000
        /\ (call.k_score = 0 /\ call.m_score = 0) => call.fusion_score = 0
        /\ (call.k_score = 1000 /\ call.m_score = 1000) => call.fusion_score = 1000
        /\ call.fusion_score >= call.unboosted
        /\ ~call.boost => call.fusion_score = call.unboosted
        /\ call.boost =>
              call.fusion_score = IF (12 * call.unboosted) \div 10 > 1000
                                  THEN 1000 ELSE (12 * call.unboosted) \div 10

\* two scores of 1.0 with the boost: the cap is active
C22_Witness ==
    /\ call.fn = "fusion_score" /\ call.returned /\ call.boost
    /\ call.k_score = 1000 /\ call.m_score = 1000
    /\ call.fusion_score = 1000


\* C23: for the same raw feature vectors and the same classifiers, the
\* per-modality scores save_baseline derives the threshold from equal the
\* per-modality scores analyze_behavior compares against it.
C23_PhasesScoreAlike ==
    (call.fn = "modality_scores" /\ call.returned) =>
        /\ call.calibration.k = call.exam.k
        /\ call.calibration.m = call.exam.m


\* the time of the first release of the key of a press, at or after the press
SameKeyRelease(df, press) ==
    LET ups == {i \in 1..Len(df) :
                  /\ df[i].type = "keyup" /\ df[i].key = press.key
                  /\ df[i].timestamp >= press.timestamp}
    IN  df[CHOOSE i \in ups : \A j \in ups : df[i].timestamp <= df[j].timestamp].timestamp

SameKeyHoldTimes(events) ==
    LET df == SortByTimestamp(events)
        presses == SelectType(df, "keydown")
    IN  [i \in 1..Len(presses) |-> SameKeyRelease(df, presses[i]) - presses[i].timestamp]

\* C24: each hold time the keystroke extractor computes is the release time
\* minus the press time of the same key, also when keys overlap; for a-down
\* 0.0, a-up 0.1, b-down 0.3, b-up 0.4 the hold times are [0.1, 0.1] and
\* keystroke_count is 2.
C24_HoldTimeOfSameKey ==
    (call.fn = "hold_times" /\ call.returned) =>
        /\ call.result.vec = RawVector(SameKeyHoldTimes(call.events))
        /\ call.events = KeysScenario =>
              /\ call.result.vec = RawVector(<< 10, 10 >>)
              /\ call.keystroke_count = 2


\* the number of events of the given types, the type of an event being its
\* field type, or its field event_type when it has no field type
EventsOfType(events, types) ==
    Cardinality({i \in 1..Len(events) :
                   \/ "type" \in DOMAIN events[i] /\ events[i].type \in types
                   \/ /\ "type" \notin DOMAIN events[i]
                      /\ "event_type" \in DOMAIN events[i]
                      /\ events[i].event_type \in types})

\* C25: the raw vector of the mouse extractor holds in copy_cut the number
\* of events whose type is copy or cut, in paste the number whose type is
\* paste and in double_click the number whose type is dblclick.
C25_MouseCountersCountTypes ==
    (/\ call.fn = "mouse_extract_features" /\ call.returned
     /\ call.result.ok /\ call.baseline = "None") =>
        /\ call.result.vec[2] = Rat(EventsOfType(call.events, {"copy", "cut"}), 1)
        /\ call.result.vec[3] = Rat(EventsOfType(call.events, {"paste"}), 1)
        /\ call.result.vec[4] = Rat(EventsOfType(call.events, {"dblclick"}), 1)


\* C26: for events with distinct timestamps, the keystroke extractor and the
\* mouse extractor return the same vector for every order of the input
\* list, and inactive_duration is never negative.
C26_OrderOfEventsIrrelevant ==
    (call.fn \in {"keystroke_reordered", "mouse_reordered"} /\ call.returned) =>
        /\ call.reordered_result = call.result
        /\ call.fn = "mouse_reordered" =>
              /\ call.result.vec[1].num >= 0
              /\ call.reordered_result.vec[1].num >= 0


\* C27: once init_models has completed, the names keystroke_model and
\* mouse_model the routes read are bound to the models init_models loaded,
\* and no save_baseline or analyze_behavior request finds a model missing.
C27_RoutesUseLoadedModels ==
    (call.fn = "startup" /\ call.pc = "serving") =>
        /\ keystroke_model = call.load_models.keystroke_model
        /\ mouse_model = call.load_models.mouse_model
        /\ resp.op \in {"poll", "save_baseline"} => ~obs.model_missing


\* C28: a save_baseline request that answers 'Failed to save baseline'
\* (save_personalized_thresholds returned False) has added no
\* PersonalThreshold row and has left every calibration session's status as
\* it was.
C28_SaveAllOrNothing ==
    [][(resp'.op = "save_baseline" /\ resp'.error = "Failed to save baseline") =>
           /\ personal_thresholds' = personal_thresholds
           /\ calibration_sessions' = calibration_sessions]_vars


\* C29: a poll of a calibrated student that reaches the feature extraction
\* with fewer than 5 key events is answered 200 gathering_data with
\* risk_score 0.0, calls no classifier and writes no incident row, whatever
\* its mouse events are.
C29_FewKeyEventsGatherData ==
    (resp.op = "poll" /\ obs.step2 /\ obs.key_events_len < MIN_KEY_EVENTS) =>
        /\ resp.code = 200 /\ resp.status = "gathering_data"
        /\ resp.has_score /\ resp.fusion_risk_score = 0
        /\ obs.classifier_calls = 0
        /\ Len(cheating_incidents) = obs.incidents_before


\* C30: every stored PersonalThreshold row has a threshold from 0.55 to
\* 0.85, the threshold save_baseline derives from any two classifier outputs
\* of [0,1] (the extremes and the 0.05 substitute included) lies in that
\* range, and every incident row has a severity_score of 0.55 or more.
C30_PersistedThresholdInRange ==
    /\ \A i \in 1..Len(personal_thresholds) :
           /\ personal_thresholds[i].threshold >= THRESHOLD_MIN
           /\ personal_thresholds[i].threshold <= THRESHOLD_MAX
    /\ \A k \in ModalityScores \cup {FALLBACK_BASELINE_SCORE},
          m \in ModalityScores \cup {FALLBACK_BASELINE_SCORE} :
           LET threshold == PersonalizedThreshold(ValidatedScore(k), ValidatedScore(m))
           IN  threshold >= THRESHOLD_MIN /\ threshold <= THRESHOLD_MAX
    /\ \A j \in 1..Len(cheating_incidents) :
           cheating_incidents[j].severity_score >= THRESHOLD_MIN

\* a poll has just logged an incident against the threshold of a stored row
\* that save_baseline derived from the 0.05 substitutes or from model scores
C30_Witness ==
    /\ resp.op = "poll" /\ resp.incident_logged
    /\ Len(cheating_incidents) = obs.incidents_before + 1
    /\ \E i \in 1..Len(personal_thresholds) :
           /\ personal_thresholds[i].student_id = obs.student
           /\ personal_thresholds[i].threshold = resp.personalized_threshold
    /\ cheating_incidents[Len(cheating_incidents)].severity_score
           >= resp.personalized_threshold

====
